---- MODULE Spec2Model ----
(***************************************************************************)
(* A model of the research synthesis pipeline of subalkum/prism:           *)
(*   - the provider fallback chain (llm/providers: callLLMWithFallback),   *)
(*   - the research action (agents/researchAgent: runResearch),            *)
(*   - the storage mutations it calls (agents/researchDb),                 *)
(*   - document ingestion (rag/ingest: ingestDocument).                    *)
(*                                                                         *)
(* Texts produced by a model are sequences of segments (a run of plain     *)
(* words, a sentence ending in "?", a fenced metadata block, ...); the     *)
(* parsers act on the segments the way the regular expressions of the      *)
(* source act on the characters.  Document contents are sequences of       *)
(* character codes: the chunkers and the fingerprint act on the            *)
(* characters themselves.  Fractions are integers in thousandths           *)
(* (relevance: in ten-thousandths).                                        *)
(***************************************************************************)
EXTENDS Integers, Sequences, FiniteSets, TLC

VARIABLES
    db,        \* the Convex tables
    ing,       \* the last ingestDocument call: its arguments and what it returned
    pc,        \* position of the one research action in flight
    req,       \* its arguments
    sess,      \* what getSessionData returned to it
    chain,     \* the state of the callLLMWithFallback invocation in flight
    llm,       \* llmResponse / llmError of the primary invocation
    out,       \* cleanAnswer, status, responseCandidate, finalResponse
    mem,       \* memorySummary / memoryTags
    result,    \* what the action returned or raised
    hist       \* observations: provider calls of the run, rows before Persist

vars == <<db, ing, pc, req, sess, chain, llm, out, mem, result, hist>>

(***************************************************************************)
(* Bounds of the model.                                                    *)
(***************************************************************************)
MaxRuns == 1
MaxIngest == 3
MaxPersist == 5

(***************************************************************************)
(* Generic helpers.                                                        *)
(***************************************************************************)
Min(a, b) == IF a < b THEN a ELSE b

Max(a, b) == IF a > b THEN a ELSE b

Range(s) == {s[i] : i \in 1..Len(s)}

Take(s, n) == SubSeq(s, 1, Min(n, Len(s)))

Drop(s, n) == SubSeq(s, Min(n, Len(s)) + 1, Len(s))

RECURSIVE SumSeq(_)
SumSeq(s) == IF s = <<>> THEN 0 ELSE Head(s) + SumSeq(Tail(s))

RECURSIVE Concat(_)
Concat(ss) == IF ss = <<>> THEN <<>> ELSE Head(ss) \o Concat(Tail(ss))

Abs(n) == IF n < 0 THEN -n ELSE n

\* Math.ceil(a / b) for a >= 0, b > 0
CeilDiv(a, b) == (a + b - 1) \div b

\* An optional value: absent, or present with a value.
None == [has |-> FALSE, v |-> <<>>]

Some(x) == [has |-> TRUE, v |-> x]

(***************************************************************************)
(* Texts.  A text is a sequence of segments [k, v, n]: the segment is the  *)
(* string number v of kind k, n characters long.  Two segments with the    *)
(* same k and v are prefixes of one another.  Segments hold no run of      *)
(* white space and no leading or trailing white space.                     *)
(*   words     plain prose without any of the marks below                  *)
(*   question  a sentence ending in "?"                                    *)
(*   code      a fenced code block                                         *)
(*   heading   a markdown heading line of level 2-4                        *)
(*   meta      a fenced json:metadata block whose body JSON-decodes;       *)
(*             v = 1: follow-ups, tradeoffs and a confidence; v = 2: {}    *)
(*   badmeta   a fenced json:metadata block whose body does not decode     *)
(*   marker    the HTML comment carrying "confidence: <v thousandths>"     *)
(*   json      a JSON object; v = 0: without a "summary" string,           *)
(*             v > 0: with the summary number v and a tag list             *)
(*   summary   the summary sentence number v of a summarizer reply         *)
(*   snippet   the snippet v of a chunk (v is the character string)        *)
(*   query     the query v (v is the sequence of its words)                *)
(*   the other kinds are the fixed strings of buildAnswer, of the prompts  *)
(*   and of the response.                                                  *)
(***************************************************************************)
\* the length in characters of the representative of a kind
KindLen(k) ==
    CASE k = "words" -> 400
      [] k = "question" -> 60
      [] k = "code" -> 120
      [] k = "heading" -> 12
      [] k = "meta" -> 180
      [] k = "badmeta" -> 40
      [] k = "marker" -> 24
      [] k = "json" -> 90
      [] k = "summary" -> 80
      [] k = "introQuick" -> 21
      [] k = "introDeep" -> 29
      [] k = "evidenceHeader" -> 12
      [] k = "noEvidence" -> 71
      [] k = "guidanceQuick" -> 66
      [] k = "guidanceDeep" -> 80
      [] k = "example" -> 11
      [] k = "detailedNote" -> 92
      [] k = "balancedNote" -> 68
      [] k = "modeQuick" -> 95
      [] k = "modeDeep" -> 346
      [] k = "codeInstruction" -> 144
      [] k = "conciseInstruction" -> 45
      [] k = "detailedInstruction" -> 84
      [] k = "ragHeader" -> 88
      [] k = "citationInstruction" -> 159
      [] k = "memoryHeader" -> 47
      [] k = "structuredQuick" -> 373
      [] k = "structuredDeep" -> 566
      [] k = "clarifyIntro" -> 17
      [] k = "clarifyAsk" -> 169
      [] k = "validationNotice" -> 62
      [] k = "summarizerPrompt" -> 206
      [] k = "summaryQuery" -> 7
      [] k = "summaryAnswer" -> 28
      [] k = "defaultQuestion" -> 81
      [] OTHER -> 50

Seg(k) == [k |-> k, v |-> 0, n |-> KindLen(k)]

SegV(k, v) == [k |-> k, v |-> v, n |-> KindLen(k)]

SegN(k, v, n) == [k |-> k, v |-> v, n |-> n]

HasKind(text, kinds) == \E i \in 1..Len(text) : text[i].k \in kinds

\* the index of the first segment of one of the kinds (0 when there is none)
FirstOf(text, kinds) ==
    IF HasKind(text, kinds)
    THEN CHOOSE i \in 1..Len(text) :
            /\ text[i].k \in kinds
            /\ \A j \in 1..(i - 1) : text[j].k \notin kinds
    ELSE 0

RemoveAt(text, i) == SubSeq(text, 1, i - 1) \o SubSeq(text, i + 1, Len(text))

\* text.length
TextLen(text) == SumSeq([i \in 1..Len(text) |-> text[i].n])

\* text.slice(0, max)
RECURSIVE SliceText(_, _)
SliceText(text, max) ==
    IF text = <<>> \/ max <= 0 THEN <<>>
    ELSE IF Head(text).n <= max
         THEN <<Head(text)>> \o SliceText(Tail(text), max - Head(text).n)
         ELSE <<[Head(text) EXCEPT !.n = max]>>

(***************************************************************************)
(* Character strings: document contents are sequences of character codes.  *)
(***************************************************************************)
LF == 10

CR == 13

SPACE == 32

HASH == 35

COLON == 58

IsSpace(c) == c \in {9, LF, 11, 12, CR, SPACE}

IsUpper(c) == c \in 65..90

IsAlnum(c) == c \in (48..57) \cup (65..90) \cup (97..122)

\* String.prototype.trim
TrimStart(s) ==
    IF \A i \in 1..Len(s) : IsSpace(s[i]) THEN <<>>
    ELSE SubSeq(s, CHOOSE i \in 1..Len(s) :
                        ~IsSpace(s[i]) /\ \A j \in 1..(i - 1) : IsSpace(s[j]),
                Len(s))

TrimEnd(s) ==
    IF \A i \in 1..Len(s) : IsSpace(s[i]) THEN <<>>
    ELSE SubSeq(s, 1, CHOOSE i \in 1..Len(s) :
                        ~IsSpace(s[i]) /\ \A j \in (i + 1)..Len(s) : IsSpace(s[j]))

Trim(s) == TrimEnd(TrimStart(s))

\* the positions 1..Len(s)
Positions(s) == [i \in 1..Len(s) |-> i]

\* the characters of s at the positions kept, in order
Pick(s, kept) == [k \in 1..Len(kept) |-> s[kept[k]]]

\* content.replace(/\r\n/g, "\n"): every "\r" that a "\n" follows is dropped
ReplaceCRLF(s) ==
    LET Keep(i) == ~(s[i] = CR /\ i < Len(s) /\ s[i + 1] = LF)
    IN  Pick(s, SelectSeq(Positions(s), Keep))

\* text.replace(/\s+/g, " "): every run of white space becomes one space
CollapseSpace(s) ==
    LET Keep(i) == ~IsSpace(s[i]) \/ i = 1 \/ ~IsSpace(s[i - 1])
        spaced == [i \in 1..Len(s) |-> IF IsSpace(s[i]) THEN SPACE ELSE s[i]]
    IN  Pick(spaced, SelectSeq(Positions(s), Keep))

\* snippet(text, max) = text.replace(/\s+/g, " ").trim().slice(0, max)
snippet(text, max) == Take(Trim(CollapseSpace(text)), max)

\* s.split(sep) for a one-character separator: the stretches between the
\* separators, one more than there are separators
SplitOn(s, sep) ==
    LET IsCut(i) == s[i] = sep
        cuts == SelectSeq(Positions(s), IsCut)
        n == Len(cuts)
    IN  [k \in 1..(n + 1) |->
            SubSeq(s, IF k = 1 THEN 1 ELSE cuts[k - 1] + 1,
                      IF k = n + 1 THEN Len(s) ELSE cuts[k] - 1)]

\* lines.join("\n")
RECURSIVE JoinLines(_)
JoinLines(ls) ==
    IF ls = <<>> THEN <<>>
    ELSE IF Len(ls) = 1 THEN ls[1]
    ELSE ls[1] \o <<LF>> \o JoinLines(Tail(ls))

(***************************************************************************)
(* lib/utils                                                               *)
(***************************************************************************)
\* estimateTokens(text), given text.length
estimateTokens(len) == Max(1, CeilDiv(len, 4))

\* PRICING_PER_1K_TOKENS[model] ?? DEFAULT_PRICE_PER_1K, in 1e-7 USD per token
UnitPrice(model) ==
    CASE model = "gemini-2.0-flash" -> 20
      [] model = "gemini-2.5-pro-preview-05-06" -> 100
      [] model = "llama-3.3-70b-versatile" -> 20
      [] model = "llama-3.3-70b" -> 15
      [] OTHER -> 40

\* Number(x.toFixed(d)): x = n units to the nearest multiple of u units
RoundTo(n, u) ==
    IF n >= 0 THEN ((2 * n + u) \div (2 * u)) * u
    ELSE -(((2 * (-n) + u) \div (2 * u)) * u)

\* estimateCost(model, totalTokens), in 1e-7 USD (a multiple of 1e-6 USD)
estimateCost(model, totalTokens) == RoundTo(totalTokens * UnitPrice(model), 10)

\* "this", "that", "it", "thing", "stuff", "more", "better", "some", "any",
\* "what", "how", "why", "can", "the", "about"
WEAK_WORDS ==
    { <<116, 104, 105, 115>>, <<116, 104, 97, 116>>, <<105, 116>>,
      <<116, 104, 105, 110, 103>>, <<115, 116, 117, 102, 102>>,
      <<109, 111, 114, 101>>, <<98, 101, 116, 116, 101, 114>>,
      <<115, 111, 109, 101>>, <<97, 110, 121>>, <<119, 104, 97, 116>>,
      <<104, 111, 119>>, <<119, 104, 121>>, <<99, 97, 110>>, <<116, 104, 101>>,
      <<97, 98, 111, 117, 116>> }

\* query.length
QueryLen(q) == Len(q)

\* String.prototype.toLowerCase, on one character
ToLower(c) == IF IsUpper(c) THEN c + 32 ELSE c

LongToken(t) == Len(t) > 2

\* text.toLowerCase().split(/[^a-z0-9]+/g).filter((t) => t.length > 2): the
\* maximal runs of letters and digits of the lowercased text, the short ones
\* (and the empty pieces split leaves at the ends) dropped
tokenize(text) ==
    LET low == [i \in 1..Len(text) |-> ToLower(text[i])]
        Starts(i) == IsAlnum(low[i]) /\ (i = 1 \/ ~IsAlnum(low[i - 1]))
        Ends(i) == IsAlnum(low[i]) /\ (i = Len(low) \/ ~IsAlnum(low[i + 1]))
        starts == SelectSeq(Positions(text), Starts)
        ends == SelectSeq(Positions(text), Ends)
    IN  SelectSeq([k \in 1..Len(starts) |-> SubSeq(low, starts[k], ends[k])], LongToken)

Meaningful(t) == t \notin WEAK_WORDS

\* a gate with the length limit at 18 characters
isAmbiguous_Under18(query) ==
    LET q == Trim(query)
    IN  \/ Len(q) < 18
        \/ Len(SelectSeq(tokenize(q), Meaningful)) < 2

isAmbiguous(query) ==
    LET q == Trim(query)
    IN  \/ Len(q) < 12
        \/ Len(SelectSeq(tokenize(q), Meaningful)) < 2

(***************************************************************************)
(* llm/providers: the fallback chain                                       *)
(***************************************************************************)
\* a chain whose second provider would also be marked primary
getProviderChain_GroqPrimary ==
    << [name |-> "gemini", route |-> "primary",
        quickModel |-> "gemini-2.0-flash", deepModel |-> "gemini-2.5-pro-preview-05-06"],
       [name |-> "groq", route |-> "primary",
        quickModel |-> "llama-3.3-70b-versatile", deepModel |-> "llama-3.3-70b-versatile"],
       [name |-> "cerebras", route |-> "fallback",
        quickModel |-> "llama-3.3-70b", deepModel |-> "llama-3.3-70b"] >>

\* getProviderChain(): gemini, groq, cerebras
getProviderChain ==
    << [name |-> "gemini", route |-> "primary",
        quickModel |-> "gemini-2.0-flash", deepModel |-> "gemini-2.5-pro-preview-05-06"],
       [name |-> "groq", route |-> "fallback",
        quickModel |-> "llama-3.3-70b-versatile", deepModel |-> "llama-3.3-70b-versatile"],
       [name |-> "cerebras", route |-> "fallback",
        quickModel |-> "llama-3.3-70b", deepModel |-> "llama-3.3-70b"] >>

\* const model = request.mode === "deep" ? provider.deepModel : provider.quickModel
ModelFor(provider, mode) ==
    IF mode = "deep" THEN provider.deepModel ELSE provider.quickModel

(***************************************************************************)
(* What a provider endpoint does with one call.  A call throws (no API     *)
(* key, a non-2xx reply) or gets a 2xx JSON payload, in which the text and *)
(* each usage count are present or not.                                    *)
(***************************************************************************)
\* the messages a call to that provider throws with: `${Name} ${res.status}: ...`
Failures(provider) == {<<provider.name, "503: unavailable">>}

Payload(hasText, text, usage) ==
    [hasText |-> hasText, text |-> text,
     hasPrompt |-> usage[1], promptTokens |-> usage[2],
     hasCompletion |-> usage[3], completionTokens |-> usage[4]]

NoUsage == <<FALSE, 0, FALSE, 0>>

GoodUsage == <<TRUE, 120, TRUE, 80>>

NegativeUsage == <<TRUE, -1, TRUE, 80>>

\* texts a model may answer the research prompt with
AnswerTexts ==
    { <<Seg("words")>>,
      <<Seg("question"), Seg("words")>>,
      <<Seg("heading"), Seg("words"), Seg("code"), SegV("meta", 1)>>,
      <<Seg("words"), SegV("marker", 900), Seg("badmeta")>> }

\* texts a model may answer the summary prompt with
SummaryTexts ==
    { <<SegV("json", 1)>>, <<SegV("json", 2)>>, <<SegV("json", 0)>> }

Payloads(purpose) ==
    IF purpose = "primary"
    THEN {Payload(TRUE, t, NoUsage) : t \in AnswerTexts}
            \cup {Payload(TRUE, <<Seg("words")>>, GoodUsage),
                  Payload(TRUE, <<Seg("words")>>, NegativeUsage),
                  Payload(FALSE, <<>>, GoodUsage)}
    ELSE {Payload(TRUE, t, NoUsage) : t \in SummaryTexts}
            \cup {Payload(FALSE, <<>>, NoUsage)}

\* callGemini / callGroq / callCerebras on a 2xx payload:
\*   text = json?.<...>.text ?? "", the counts = usage.<...> ?? estimateTokens(...)
ProviderResult(payload, promptLen) ==
    LET text == IF payload.hasText THEN payload.text ELSE <<>>
    IN  [text |-> text,
         promptTokens |->
            IF payload.hasPrompt THEN payload.promptTokens ELSE estimateTokens(promptLen),
         completionTokens |->
            IF payload.hasCompletion THEN payload.completionTokens
            ELSE estimateTokens(TextLen(text))]

\* the LLMResponse callLLMWithFallback returns when provider number idx succeeded
LLMResponseOf(idx, mode, res) ==
    LET provider == getProviderChain[idx]
    IN  [text |-> res.text,
         provider |-> provider.name,
         model |-> ModelFor(provider, mode),
         route |-> provider.route,
         promptTokens |-> res.promptTokens,
         completionTokens |-> res.completionTokens,
         totalTokens |-> res.promptTokens + res.completionTokens,
         latencyMs |-> 0]

\* an error line that would always name the provider's quick model
ErrorLine_QuickModel(idx, mode, msg) ==
    [provider |-> getProviderChain[idx].name,
     model |-> getProviderChain[idx].quickModel,
     msg |-> msg]

\* errors.push(`[${provider.name}/${model}] ${msg}`)
ErrorLine(idx, mode, msg) ==
    [provider |-> getProviderChain[idx].name,
     model |-> ModelFor(getProviderChain[idx], mode),
     msg |-> msg]

\* a chain invocation that has not called anyone yet
NewChain(purpose, mode, promptLen) ==
    [purpose |-> purpose, mode |-> mode, promptLen |-> promptLen,
     idx |-> 1, inflight |-> {}, errors |-> <<>>,
     state |-> "running", response |-> <<>>]

NoChain ==
    [purpose |-> "none", mode |-> "quick", promptLen |-> 0,
     idx |-> 1, inflight |-> {}, errors |-> <<>>,
     state |-> "none", response |-> <<>>]

\* a loop that would not await: it calls on while a call is outstanding
CanIssue_NoAwait(c) == c.state = "running" /\ c.idx <= Len(getProviderChain)

\* the for-of loop reaches provider.call only with no call awaited
CanIssue(c) ==
    /\ c.state = "running"
    /\ c.idx <= Len(getProviderChain)
    /\ c.inflight = {}

\* a catch block that would rethrow at the first failure
AfterFailure_GiveUp(c, msg) ==
    [c EXCEPT !.inflight = {},
              !.errors = Append(@, ErrorLine(c.idx, c.mode, msg)),
              !.idx = Len(getProviderChain) + 1,
              !.state = "rejected"]

\* the catch block: record the error and go on with the next provider
AfterFailure(c, msg) ==
    [c EXCEPT !.inflight = {},
              !.errors = Append(@, ErrorLine(c.idx, c.mode, msg)),
              !.idx = c.idx + 1,
              !.state = IF c.idx + 1 > Len(getProviderChain) THEN "rejected" ELSE "running"]

\* the try block: return on the first success
AfterSuccess(c, payload) ==
    [c EXCEPT !.inflight = {},
              !.state = "resolved",
              !.response = <<LLMResponseOf(c.idx, c.mode, ProviderResult(payload, c.promptLen))>>]

(***************************************************************************)
(* rag/ingest: the three chunking strategies                               *)
(***************************************************************************)
FixedSize == 900

FixedOverlap == 120

FlushLimit == 1000

\* the while loop of chunkFixed, cursor counted from 0
RECURSIVE FixedFrom(_, _)
FixedFrom(normalized, cursor) ==
    IF cursor >= Len(normalized) THEN <<>>
    ELSE LET end == Min(Len(normalized), cursor + FixedSize)
             text == Trim(SubSeq(normalized, cursor + 1, end))
             here == IF Len(text) > 0 THEN <<text>> ELSE <<>>
         IN  IF end = Len(normalized) THEN here
             ELSE here \o FixedFrom(normalized, Max(end - FixedOverlap, cursor + 1))

chunkFixed(content) == FixedFrom(Trim(ReplaceCRLF(content)), 0)

\* the number of "#" a line starts with
RECURSIVE LeadingHashes(_)
LeadingHashes(line) ==
    IF line # <<>> /\ Head(line) = HASH THEN 1 + LeadingHashes(Tail(line)) ELSE 0

\* /^(#{1,6}\s+.+|[A-Z][A-Za-z0-9 /-]{3,}:)$/.test(line), line being trimmed
IsHeadingLine(line) ==
    LET k == LeadingHashes(line)
        n == Len(line)
    IN  \/ /\ k \in 1..6
           /\ \E j \in (k + 1)..(n - 1) :
                /\ \A i \in (k + 1)..j : IsSpace(line[i])
                /\ \A i \in (j + 1)..n : line[i] \notin {LF, CR}
        \/ /\ n >= 5
           /\ IsUpper(line[1])
           /\ line[n] = COLON
           /\ \A i \in 2..(n - 1) : IsAlnum(line[i]) \/ line[i] \in {SPACE, 47, 45}

\* line.replace(/^#+\s*/, "").replace(/:$/, "").trim()
HeadingLabel(line) ==
    LET a == TrimStart(SubSeq(line, LeadingHashes(line) + 1, Len(line)))
        b == IF a # <<>> /\ a[Len(a)] = COLON THEN SubSeq(a, 1, Len(a) - 1) ELSE a
    IN  Trim(b)

\* a flush that would push the buffer's text without looking at its length
Flushed_Always(heading, buffer) ==
    <<[heading |-> Some(heading), text |-> Trim(JoinLines(buffer))]>>

\* flush(): the chunk the buffer makes, if its text is not empty
Flushed(heading, buffer) ==
    LET text == Trim(JoinLines(buffer))
    IN  IF Len(text) > 0 THEN <<[heading |-> Some(heading), text |-> text]>> ELSE <<>>

\* the for loop of chunkHeadingAware over the lines left, and the last flush
RECURSIVE HeadingLoop(_, _, _)
HeadingLoop(lines, heading, buffer) ==
    IF lines = <<>> THEN Flushed(heading, buffer)
    ELSE LET rawLine == Head(lines)
             line == Trim(rawLine)
         IN  IF IsHeadingLine(line)
             THEN Flushed(heading, buffer) \o HeadingLoop(Tail(lines), HeadingLabel(line), <<>>)
             ELSE LET pushed == Append(buffer, rawLine)
                  IN  IF Len(JoinLines(pushed)) > FlushLimit
                      THEN Flushed(heading, pushed) \o HeadingLoop(Tail(lines), heading, <<>>)
                      ELSE HeadingLoop(Tail(lines), heading, pushed)

\* "Document", the heading before the first heading line
DocumentLabel == <<68, 111, 99, 117, 109, 101, 110, 116>>

chunkHeadingAware(content) ==
    HeadingLoop(SplitOn(Trim(ReplaceCRLF(content)), LF), DocumentLabel, <<>>)

\* normalized.split(/\n{2,}/g): cut at every maximal run of two or more "\n"
RECURSIVE SplitParagraphs(_)
SplitParagraphs(s) ==
    IF \E i \in 1..(Len(s) - 1) : s[i] = LF /\ s[i + 1] = LF
    THEN LET i == CHOOSE k \in 1..(Len(s) - 1) :
                    /\ s[k] = LF /\ s[k + 1] = LF
                    /\ \A j \in 1..(k - 1) : ~(s[j] = LF /\ s[j + 1] = LF)
             rest == SubSeq(s, i, Len(s))
             run == CHOOSE r \in 2..Len(rest) :
                    /\ \A j \in 1..r : rest[j] = LF
                    /\ (r = Len(rest) \/ rest[r + 1] # LF)
         IN  <<SubSeq(s, 1, i - 1)>> \o SplitParagraphs(SubSeq(rest, run + 1, Len(rest)))
    ELSE <<s>>

NonEmpty(x) == x # <<>>

\* the for loop of chunkSemantic and the push of the last bucket
RECURSIVE SemanticLoop(_, _)
SemanticLoop(paragraphs, bucket) ==
    IF paragraphs = <<>> THEN (IF Len(bucket) > 0 THEN <<bucket>> ELSE <<>>)
    ELSE LET paragraph == Head(paragraphs)
             candidate == IF Len(bucket) > 0 THEN bucket \o <<LF, LF>> \o paragraph
                          ELSE paragraph
         IN  IF Len(candidate) > FlushLimit /\ Len(bucket) > 0
             THEN <<bucket>> \o SemanticLoop(Tail(paragraphs), paragraph)
             ELSE SemanticLoop(Tail(paragraphs), candidate)

chunkSemantic(content) ==
    LET normalized == Trim(ReplaceCRLF(content))
        split == SplitParagraphs(normalized)
        paragraphs == SelectSeq([i \in 1..Len(split) |-> Trim(split[i])], NonEmpty)
        chunks == SemanticLoop(paragraphs, <<>>)
    IN  IF Len(chunks) > 0 THEN chunks ELSE chunkFixed(normalized)

NoHeading(texts) == [i \in 1..Len(texts) |-> [heading |-> None, text |-> texts[i]]]

chunkByStrategy(content, chunkStrategy) ==
    IF chunkStrategy = "fixed" THEN NoHeading(chunkFixed(content))
    ELSE IF chunkStrategy = "semantic" THEN NoHeading(chunkSemantic(content))
    ELSE chunkHeadingAware(content)

(***************************************************************************)
(* The tables.  A table is the sequence of its rows in creation order; a   *)
(* row's id is its position.  Rows keep the columns the pipeline reads     *)
(* back or the properties below speak of.                                  *)
(***************************************************************************)
EmptyDb ==
    [profiles |-> <<>>,
     sources |-> <<>>, ragDocuments |-> <<>>, ragChunks |-> <<>>,
     sessions |-> <<>>, messages |-> <<>>, usageLogs |-> <<>>,
     insights |-> <<>>, citations |-> <<>>, episodicMemories |-> <<>>]

HashSample == 500

\* A 32-bit integer is kept as its two 16-bit halves <<high, low>>, two's
\* complement.  One turn of the loop: hash = ((hash << 5) - hash + char) | 0,
\* that is 31 * hash + char modulo 2^32.
HashStep(hash, char) ==
    LET low == 31 * hash[2] + char
        high == 31 * hash[1] + (low \div 65536)
    IN  <<high % 65536, low % 65536>>

\* the turns first..last of the for loop of contentHash, in order: those up
\* to the middle, then the rest (the test on half has TLC evaluate the first
\* part before it enters the second, which keeps the evaluation shallow)
RECURSIVE HashLoop(_, _, _, _)
HashLoop(sample, first, last, hash) ==
    IF first > last THEN hash
    ELSE IF first = last THEN HashStep(hash, sample[first])
    ELSE LET mid == (first + last) \div 2
             half == HashLoop(sample, first, mid, hash)
         IN  IF half[1] >= 0 THEN HashLoop(sample, mid + 1, last, half) ELSE half

\* Math.abs(hash), as the halves of the magnitude
AbsInt32(hash) ==
    IF hash[1] < 32768 THEN hash
    ELSE IF hash[2] = 0 THEN <<65536 - hash[1], 0>>
    ELSE <<65535 - hash[1], 65536 - hash[2]>>

\* `${url}:${content.length}:${Math.abs(hash).toString(36)}`
contentHash(url, content) ==
    LET sample == Take(content, HashSample)
    IN  <<url, Len(content), AbsInt32(HashLoop(sample, 1, Len(sample), <<0, 0>>))>>

\* the ragChunks rows ingestDocument inserts for the chunks, offsets cumulated
RECURSIVE ChunkRows(_, _, _, _, _, _)
ChunkRows(chunks, chunkIndex, cumulativeOffset, documentId, sourceId, strategy) ==
    IF chunkIndex > Len(chunks) THEN <<>>
    ELSE LET chunk == chunks[chunkIndex]
         IN  << [documentId |-> documentId, sourceId |-> sourceId,
                 chunkIndex |-> chunkIndex - 1, heading |-> chunk.heading,
                 content |-> chunk.text, strategy |-> strategy,
                 startOffset |-> cumulativeOffset,
                 endOffset |-> cumulativeOffset + Len(chunk.text)] >>
             \o ChunkRows(chunks, chunkIndex + 1, cumulativeOffset + Len(chunk.text),
                          documentId, sourceId, strategy)

\* a lookup that would never find a stored source
SourcesByHash_None(d, hash) == {}

\* the sources rows withIndex("by_hash").eq("contentHash", hash) finds
SourcesByHash(d, hash) == {i \in 1..Len(d.sources) : d.sources[i].contentHash = hash}

\* ingestDocument's handler: the tables after it and what it returns
ingestDocument(d, args) ==
    LET hash == contentHash(args.sourceUrl, args.content)
        existing == SourcesByHash(d, hash)
    IN  IF existing # {}
        THEN [db |-> d,
              ret |-> [accepted |-> FALSE, sourceId |-> CHOOSE i \in existing : TRUE,
                       documentId |-> 0, chunkCount |-> 0]]
        ELSE LET sourceId == Len(d.sources) + 1
                 documentId == Len(d.ragDocuments) + 1
                 chunks == chunkByStrategy(args.content, args.chunkStrategy)
                 source == [userId |-> args.userId, sourceUrl |-> args.sourceUrl,
                            title |-> args.title, contentHash |-> hash,
                            strategy |-> args.chunkStrategy,
                            charCount |-> Len(args.content)]
                 document == [sourceId |-> sourceId, title |-> args.title,
                              sourceUrl |-> args.sourceUrl,
                              chunkStrategy |-> args.chunkStrategy,
                              chunkCount |-> Len(chunks)]
             IN  [db |-> [d EXCEPT
                        !.sources = Append(@, source),
                        !.ragDocuments = Append(@, document),
                        !.ragChunks = @ \o ChunkRows(chunks, 1, 0, documentId, sourceId,
                                                     args.chunkStrategy)],
                  ret |-> [accepted |-> TRUE, sourceId |-> sourceId,
                           documentId |-> documentId, chunkCount |-> Len(chunks)]]


(***************************************************************************)
(* agents/researchDb: getSessionData                                       *)
(***************************************************************************)
\* a URL string: `${scheme}://${rest}`, or rest alone when there is no scheme
Url(scheme, rest) == [scheme |-> scheme, rest |-> rest]

DefaultPreferences ==
    [prefersCodeExamples |-> TRUE, responseVerbosity |-> "balanced",
     citationStyle |-> "inline"]

\* const limit = args.mode === "quick" ? 4 : 8
ChunkLimit(mode) == IF mode = "quick" THEN 4 ELSE 8

\* a filter that would keep a chunk scoring exactly 0.05
Relevant_AtThreshold(x) == x.relevance >= 500

\* .filter((x) => x.relevance > 0.05)
Relevant(x) == x.relevance > 500

\* .sort((a, b) => b.relevance - a.relevance): stable, highest relevance first
RECURSIVE InsertByRelevance(_, _)
InsertByRelevance(sorted, x) ==
    IF sorted = <<>> THEN <<x>>
    ELSE IF Head(sorted).relevance >= x.relevance
         THEN <<Head(sorted)>> \o InsertByRelevance(Tail(sorted), x)
         ELSE <<x>> \o sorted

RECURSIVE SortByRelevance(_)
SortByRelevance(s) ==
    IF s = <<>> THEN <<>>
    ELSE InsertByRelevance(SortByRelevance(SubSeq(s, 1, Len(s) - 1)), s[Len(s)])

\* the rows of a user in a table, newest first: withIndex("by_user_id").order("desc")
RECURSIVE NewestOf(_, _)
NewestOf(rows, userId) ==
    IF rows = <<>> THEN <<>>
    ELSE LET last == rows[Len(rows)]
             rest == NewestOf(SubSeq(rows, 1, Len(rows) - 1), userId)
         IN  IF last.userId = userId THEN <<last>> \o rest ELSE rest

\* getSessionData's handler; score[i] is hybridScore(args.query, chunk i's content)
getSessionData(d, args, score) ==
    LET profile == {i \in 1..Len(d.profiles) : d.profiles[i].userId = args.userId}
        scored == [i \in 1..Len(d.ragChunks) |->
                     [chunkId |-> i, sourceId |-> d.ragChunks[i].sourceId,
                      content |-> d.ragChunks[i].content,
                      heading |-> d.ragChunks[i].heading,
                      relevance |-> score[i]]]
        ranked == Take(SortByRelevance(SelectSeq(scored, Relevant)), ChunkLimit(args.mode))
        found == {ranked[i].sourceId : i \in 1..Len(ranked)} \cap (1..Len(d.sources))
        memories == Take(NewestOf(d.episodicMemories, args.userId), 10)
    IN  [preferences |->
            IF profile = {} THEN DefaultPreferences
            ELSE d.profiles[CHOOSE i \in profile : TRUE].preferences,
         ranked |-> ranked,
         sources |-> [id \in found |->
                        [sourceUrl |-> d.sources[id].sourceUrl, title |-> d.sources[id].title]],
         recentMemories |-> [i \in 1..Len(memories) |-> memories[i].summary]]

(***************************************************************************)
(* agents/researchAgent: the prompts and the template answer               *)
(***************************************************************************)
QuerySeg(query) == SegN("query", query, QueryLen(query))

SnippetSeg(s) == SegN("snippet", s, Len(s))

\* citationMap: the ranked chunks labelled 1..N in rank order
citationMap(sessionData) ==
    [i \in 1..Len(sessionData.ranked) |->
        LET r == sessionData.ranked[i]
            known == r.sourceId \in DOMAIN sessionData.sources
        IN  [label |-> i,
             title |-> IF known THEN sessionData.sources[r.sourceId].title ELSE "Untitled",
             url |-> IF known THEN sessionData.sources[r.sourceId].sourceUrl
                     ELSE Url("https", "example.com"),
             snippet |-> snippet(r.content, 220),
             sourceId |-> r.sourceId,
             chunkId |-> r.chunkId,
             relevance |-> r.relevance]]

buildAnswer(mode, query, snippets, prefersCodeExamples, verbosity) ==
    LET intro == IF mode = "quick" THEN Seg("introQuick") ELSE Seg("introDeep")
        evidence == IF Len(snippets) > 0
                    THEN Concat([i \in 1..Len(snippets) |->
                                   <<SegN("number", i, 4), SnippetSeg(snippets[i])>>])
                    ELSE <<Seg("noEvidence")>>
        guidance == IF mode = "quick" THEN Seg("guidanceQuick") ELSE Seg("guidanceDeep")
        code == IF prefersCodeExamples THEN <<Seg("example"), SegN("code", 1, 114)>> ELSE <<>>
        tail == IF verbosity = "detailed" THEN <<Seg("detailedNote")>>
                ELSE IF verbosity = "balanced" THEN <<Seg("balancedNote")>>
                ELSE <<>>
    IN  <<intro, QuerySeg(query), Seg("evidenceHeader")>> \o evidence \o <<guidance>>
            \o code \o tail

buildSystemPrompt(mode, preferences, ragSnippets, memories) ==
    LET modeInstruction == IF mode = "quick" THEN Seg("modeQuick") ELSE Seg("modeDeep")
        codeInstruction == IF preferences.prefersCodeExamples
                           THEN <<Seg("codeInstruction")>> ELSE <<>>
        verbosityInstruction ==
            IF preferences.responseVerbosity = "concise" THEN <<Seg("conciseInstruction")>>
            ELSE IF preferences.responseVerbosity = "detailed"
                 THEN <<Seg("detailedInstruction")>>
                 ELSE <<>>
        ragContext ==
            IF Len(ragSnippets) > 0
            THEN <<Seg("ragHeader")>> \o
                 Concat([i \in 1..Len(ragSnippets) |->
                           <<SegN("label", ragSnippets[i].label, 4),
                             SegN("title", ragSnippets[i].title, 12),
                             SnippetSeg(ragSnippets[i].snippet)>>])
            ELSE <<>>
        citationInstruction ==
            IF Len(ragSnippets) > 0 THEN <<Seg("citationInstruction")>> ELSE <<>>
        memoryContext ==
            IF Len(memories) > 0
            THEN <<Seg("memoryHeader")>> \o
                 Concat([i \in 1..Len(memories) |-> <<SegN("bullet", i, 3)>> \o memories[i]])
            ELSE <<>>
        structured == IF mode = "deep" THEN Seg("structuredDeep") ELSE Seg("structuredQuick")
    IN  <<modeInstruction>> \o codeInstruction \o verbosityInstruction \o ragContext
            \o citationInstruction \o memoryContext \o <<structured>>

buildUserPrompt(query, clarificationRequired) ==
    IF clarificationRequired
    THEN <<Seg("clarifyIntro"), QuerySeg(query), Seg("clarifyAsk")>>
    ELSE <<QuerySeg(query)>>


(***************************************************************************)
(* agents/researchAgent: parsing the model's text                          *)
(***************************************************************************)
defaultMetadata == [followUpQuestions |-> <<>>, tradeoffs |-> <<>>, confidence |-> None]

\* what JSON.parse and the field filters make of the body of a metadata block
MetadataOf(v) ==
    IF v = 1
    THEN [followUpQuestions |-> <<"q1", "q2", "q3">>,
          tradeoffs |-> <<[option |-> "A", pros |-> <<"p1">>, cons |-> <<"c1">>]>>,
          confidence |-> Some(800)]
    ELSE defaultMetadata

\* extractLLMConfidence(text); a marker with v < 0 carries digits parseFloat rejects
extractLLMConfidence(text) ==
    LET i == FirstOf(text, {"marker"})
    IN  IF i > 0
        THEN [confidence |-> IF text[i].v < 0 THEN None
                             ELSE Some(Min(1000, Max(0, text[i].v))),
              cleanText |-> RemoveAt(text, i)]
        ELSE [confidence |-> None, cleanText |-> text]

parseStructuredOutput(text) ==
    LET i == FirstOf(text, {"meta", "badmeta"})
    IN  IF i = 0
        THEN [cleanAnswer |-> extractLLMConfidence(text).cleanText,
              metadata |-> [defaultMetadata EXCEPT
                              !.confidence = extractLLMConfidence(text).confidence]]
        ELSE [cleanAnswer |-> RemoveAt(text, i),
              metadata |-> IF text[i].k = "meta" THEN MetadataOf(text[i].v)
                           ELSE defaultMetadata]

\* /```[\s\S]*?```/.test(text)
hasCodeBlocks(text) == HasKind(text, {"code", "meta", "badmeta"})

\* /^#{2,4}\s+.+/m.test(text)
hasStructuredSections(text) == HasKind(text, {"heading"})

\* Math.round of a / b, halves away from zero (b > 0)
RoundDiv(a, b) ==
    IF a >= 0 THEN (2 * a + b) \div (2 * b) ELSE -((2 * (-a) + b) \div (2 * b))

\* Number(raw.toFixed(3)) of computeConfidence(signals), in thousandths.  The
\* weighted sum is formed exactly, in units of 1 / (10^4 * unit), and rounded
\* once, as raw.toFixed(3) does; avgRelevance is relevanceSum / (chunksFound * 10^4).
rawConfidence(signals) ==
    LET n == Max(1, signals.chunksFound)
        unit == 1200 * n
        minExpectedLength == IF signals.mode = "deep" THEN 800 ELSE 200
        full == minExpectedLength * 3
        \* ragSignal * 0.30
        rag == 216 * signals.relevanceSum
                 + 1200 * signals.chunksFound * (unit \div signals.maxChunks)
        structureBonus == (IF signals.hasCodeBlocks THEN 150 ELSE 0)
                            + (IF signals.hasStructuredSections THEN 150 ELSE 0)
        \* answerSignal * 10 * full
        answer == Min(10 * full,
                      7 * Min(full, signals.answerLength) + (structureBonus * full) \div 100)
        llmSignal == IF signals.llmSelfConfidence.has THEN signals.llmSelfConfidence.v
                     ELSE IF signals.llmFailed THEN 200 ELSE 600
        source == Min(3, signals.sourcesCount)
        sum == rag + answer * ((300000 * n) \div full) + 3000 * n * llmSignal
                 + 800000 * n * source
        raw == sum - (IF signals.clarificationRequired THEN 1500 * unit ELSE 0)
                   - (IF signals.llmFailed THEN 2000 * unit ELSE 0)
    IN  RoundDiv(raw, 10 * unit)

\* a score that would be returned as rounded, without the clamp
computeConfidence_Unclamped(signals) == rawConfidence(signals)

\* return Math.max(0.10, Math.min(0.95, Number(raw.toFixed(3))))
computeConfidence(signals) == Max(100, Min(950, rawConfidence(signals)))

(***************************************************************************)
(* shared/schemas/researchResponse                                         *)
(***************************************************************************)
\* z.string().url()
IsUrl(u) == u.scheme # ""

researchCitationSchema(c) ==
    /\ IsUrl(c.url)
    /\ c.relevance >= 0 /\ c.relevance <= 10000
    /\ ("label" \in DOMAIN c) => c.label > 0

researchTelemetrySchema(t) ==
    /\ t.route \in {"primary", "fallback"}
    /\ t.promptTokens >= 0
    /\ t.completionTokens >= 0
    /\ t.totalTokens >= 0
    /\ t.estimatedCostUsd >= 0
    /\ t.latencyMs >= 0

researchResponseSchema(r) ==
    /\ r.mode \in {"quick", "deep"}
    /\ r.status \in {"answered", "needs_clarification", "fallback"}
    /\ \A i \in 1..Len(r.citations) : researchCitationSchema(r.citations[i])
    /\ r.confidence >= 0 /\ r.confidence <= 1000
    /\ researchTelemetrySchema(r.telemetry)


(***************************************************************************)
(* agents/researchAgent: runResearch, from the model's text to the         *)
(* response.  llmError is absent, or the error the chain was rejected with *)
(* (the lines it collected).                                               *)
(***************************************************************************)
\* the LLMResponse the catch block builds when the chain was rejected
TemplateResponse(args, sessionData, promptLen) ==
    LET top == Take(sessionData.ranked, 3)
    IN  [text |-> buildAnswer(args.mode, args.query,
                              [i \in 1..Len(top) |-> snippet(top[i].content, 220)],
                              sessionData.preferences.prefersCodeExamples,
                              sessionData.preferences.responseVerbosity),
         provider |-> "cerebras",
         model |-> "fallback-local",
         route |-> "fallback",
         promptTokens |-> estimateTokens(promptLen),
         completionTokens |-> 0,
         totalTokens |-> estimateTokens(promptLen),
         latencyMs |-> 0]

\* a status that would call every response answered
StatusOf_Answered(clarificationRequired, llmFailed) == "answered"

\* a status that would let the chain failure win over the ambiguity
StatusOf_FailureFirst(clarificationRequired, llmFailed) ==
    IF llmFailed THEN "fallback"
    ELSE IF clarificationRequired THEN "needs_clarification"
    ELSE "answered"

\* const status = clarificationRequired ? ... : llmError ? "fallback" : "answered"
StatusOf(clarificationRequired, llmFailed) ==
    IF clarificationRequired THEN "needs_clarification"
    ELSE IF llmFailed THEN "fallback"
    ELSE "answered"

\* citations that would be listed best-last, the labels following the list
CitationsOf_Reversed(sessionData) ==
    LET cm == citationMap(sessionData)
        n == Len(cm)
    IN  [i \in 1..n |->
            [sourceId |-> cm[n + 1 - i].sourceId, chunkId |-> cm[n + 1 - i].chunkId,
             title |-> cm[n + 1 - i].title, url |-> cm[n + 1 - i].url,
             snippet |-> cm[n + 1 - i].snippet,
             relevance |-> RoundTo(cm[n + 1 - i].relevance, 10), label |-> i]]

\* the citations of step 8: relevance to three decimals, the label kept
CitationsOf(sessionData) ==
    LET cm == citationMap(sessionData)
    IN  [i \in 1..Len(cm) |->
            [sourceId |-> cm[i].sourceId, chunkId |-> cm[i].chunkId,
             title |-> cm[i].title, url |-> cm[i].url, snippet |-> cm[i].snippet,
             relevance |-> RoundTo(cm[i].relevance, 10), label |-> cm[i].label]]

SignalsOf(args, sessionData, cleanAnswer, metadata, llmFailed) ==
    LET ranked == sessionData.ranked
    IN  [relevanceSum |-> SumSeq([i \in 1..Len(ranked) |-> ranked[i].relevance]),
         sourcesCount |-> Cardinality({ranked[i].sourceId : i \in 1..Len(ranked)}),
         chunksFound |-> Len(ranked),
         maxChunks |-> ChunkLimit(args.mode),
         answerLength |-> TextLen(cleanAnswer),
         hasCodeBlocks |-> hasCodeBlocks(cleanAnswer),
         hasStructuredSections |-> hasStructuredSections(cleanAnswer),
         llmSelfConfidence |-> metadata.confidence,
         clarificationRequired |-> isAmbiguous(args.query),
         llmFailed |-> llmFailed,
         mode |-> args.mode]

responseCandidate(args, sessionData, llmResponse, llmError) ==
    LET clarificationRequired == isAmbiguous(args.query)
        parsed == parseStructuredOutput(llmResponse.text)
        cleanAnswer == parsed.cleanAnswer
        metadata == parsed.metadata
        question == FirstOf(cleanAnswer, {"question"})
    IN  [mode |-> args.mode,
         status |-> StatusOf(clarificationRequired, llmError.has),
         answer |-> cleanAnswer,
         citations |-> CitationsOf(sessionData),
         tradeoffs |->
            IF Len(metadata.tradeoffs) > 0 THEN metadata.tradeoffs
            ELSE IF args.mode = "deep"
                 THEN <<[option |-> "Further analysis needed",
                         pros |-> <<"no specific tradeoffs">>,
                         cons |-> <<"re-run in deep mode">>]>>
                 ELSE <<>>,
         followUpQuestions |->
            IF Len(metadata.followUpQuestions) > 0 THEN metadata.followUpQuestions
            ELSE IF clarificationRequired THEN <<"stack", "environment", "optimizing">>
            ELSE <<"compare", "deployment", "benchmark">>,
         clarificationPrompt |->
            IF clarificationRequired
            THEN Some([question |-> IF question > 0 THEN Take(cleanAnswer, question)
                                    ELSE <<Seg("defaultQuestion")>>,
                       reason |-> "needs more context"])
            ELSE None,
         confidence |->
            computeConfidence(SignalsOf(args, sessionData, cleanAnswer, metadata,
                                        llmError.has)),
         limitations |->
            IF llmError.has THEN <<[kind |-> "providers failed", error |-> llmError.v]>>
            ELSE IF Len(sessionData.ranked) = 0
                 THEN <<[kind |-> "no sources matched", error |-> <<>>]>>
                 ELSE <<>>,
         telemetry |->
            [provider |-> llmResponse.provider,
             model |-> llmResponse.model,
             route |-> llmResponse.route,
             promptTokens |-> llmResponse.promptTokens,
             completionTokens |-> llmResponse.completionTokens,
             totalTokens |-> llmResponse.totalTokens,
             estimatedCostUsd |-> estimateCost(llmResponse.model, llmResponse.totalTokens),
             latencyMs |-> llmResponse.latencyMs]]

\* a step 14 that would pass the assembled object on without validating it
finalResponse_Unvalidated(candidate) == candidate

\* a substitute that would keep the question of the rejected candidate
finalResponse_KeepsPrompt(candidate) ==
    IF researchResponseSchema(candidate) THEN candidate
    ELSE [mode |-> candidate.mode,
          status |-> "fallback",
          answer |-> <<Seg("validationNotice")>> \o SliceText(candidate.answer, 500),
          citations |-> <<>>,
          tradeoffs |-> <<>>,
          followUpQuestions |-> <<"retry with a narrower scope">>,
          clarificationPrompt |-> candidate.clarificationPrompt,
          confidence |-> 150,
          limitations |-> <<[kind |-> "validation failed", error |-> <<>>]>>,
          telemetry |-> candidate.telemetry]

\* validated.success ? validated.data : { ... }
finalResponse(candidate) ==
    IF researchResponseSchema(candidate) THEN candidate
    ELSE [mode |-> candidate.mode,
          status |-> "fallback",
          answer |-> <<Seg("validationNotice")>> \o SliceText(candidate.answer, 500),
          citations |-> <<>>,
          tradeoffs |-> <<>>,
          followUpQuestions |-> <<"retry with a narrower scope">>,
          clarificationPrompt |-> None,
          confidence |-> 150,
          limitations |-> <<[kind |-> "validation failed", error |-> <<>>]>>,
          telemetry |-> candidate.telemetry]


(***************************************************************************)
(* agents/researchAgent: generateMemorySummary                             *)
(***************************************************************************)
\* the summary sentence of a summarizer reply; number 2 continues number 1
SummaryOf(v) ==
    IF v = 2 THEN <<SegV("summary", 1), SegN("summary", 2, 60)>>
    ELSE <<SegV("summary", v)>>

\* the user prompt of the summarizer call
SummaryPrompt(query, answer) ==
    <<Seg("summarizerPrompt"), Seg("summaryQuery"), QuerySeg(query), Seg("summaryAnswer")>>
        \o SliceText(answer, 500)

\* JSON.parse(resp.text) succeeds: the text is one JSON value
IsJson(text) == Len(text) = 1 /\ text[1].k = "json"

\* a catch block that would hand the whole answer on as the summary
generateMemorySummary_WholeAnswer(query, answer, c) ==
    IF c.state = "resolved" /\ IsJson(c.response[1].text)
    THEN LET v == c.response[1].text[1].v
         IN  [summary |-> IF v > 0 THEN SliceText(SummaryOf(v), 300)
                          ELSE SliceText(answer, 280),
              tags |-> IF v > 0 THEN <<"topic">> ELSE <<>>]
    ELSE [summary |-> answer,
          tags |-> Take(tokenize(query), 5)]

\* what generateMemorySummary returns once its chain call c has settled
generateMemorySummary(query, answer, c) ==
    IF c.state = "resolved" /\ IsJson(c.response[1].text)
    THEN LET v == c.response[1].text[1].v
         IN  [summary |-> IF v > 0 THEN SliceText(SummaryOf(v), 300)
                          ELSE SliceText(answer, 280),
              tags |-> IF v > 0 THEN <<"topic">> ELSE <<>>]
    ELSE [summary |-> SliceText(answer, 280),
          tags |-> Take(tokenize(query), 5)]

(***************************************************************************)
(* agents/researchDb: persistResearchResult                                *)
(***************************************************************************)
\* the fields v.object({...}) declares for one element of args.citations
CitationFields == {"sourceId", "chunkId", "title", "url", "snippet", "relevance"}

\* the argument validator: an object with a missing or an undeclared field
\* is rejected before the handler runs
ArgsAccepted(a) ==
    /\ a.mode \in {"quick", "deep"}
    /\ a.status \in {"answered", "needs_clarification", "fallback"}
    /\ a.route \in {"primary", "fallback"}
    /\ \A i \in 1..Len(a.citations) : DOMAIN a.citations[i] = CitationFields

\* the arguments runResearch passes at step 15
PersistArgs(args, citations, final, llmResponse, llmError, memory) ==
    [userId |-> args.userId, query |-> args.query, mode |-> args.mode,
     sessionId |-> args.sessionId,
     answer |-> final.answer, status |-> final.status,
     citations |-> citations,
     tradeoffs |-> final.tradeoffs,
     followUpQuestions |-> final.followUpQuestions,
     clarificationPrompt |-> final.clarificationPrompt,
     confidence |-> final.confidence,
     limitations |-> final.limitations,
     provider |-> llmResponse.provider, model |-> llmResponse.model,
     route |-> llmResponse.route,
     promptTokens |-> llmResponse.promptTokens,
     completionTokens |-> llmResponse.completionTokens,
     totalTokens |-> llmResponse.totalTokens,
     estimatedCostUsd |-> estimateCost(llmResponse.model, llmResponse.totalTokens),
     latencyMs |-> llmResponse.latencyMs,
     llmError |-> llmError,
     memorySummary |-> IF memory.has THEN Some(memory.v.summary) ELSE None,
     memoryTags |-> IF memory.has
                    THEN Some(memory.v.tags \o <<"research", args.mode, llmResponse.provider>>)
                    ELSE None]

\* existingMemories.some(m => m.sessionId === sessionId && first 80 characters equal)
isDuplicate(existingMemories, sessionId, summary) ==
    \E i \in 1..Len(existingMemories) :
        /\ existingMemories[i].sessionId = sessionId
        /\ SliceText(existingMemories[i].summary, 80) = SliceText(summary, 80)

\* a handler without the status guard
WritesMemory_Always(status) == TRUE

\* if (args.status !== "needs_clarification") { ... insert("episodicMemories") }
WritesMemory(status) == status # "needs_clarification"

\* a handler without the patch of the status: a new session stays as inserted
SessionStatus_Active(status) == "active"

\* patch(sessionId, {status: ...}): what the handler leaves in the session,
\* which it inserted as "active" when no sessionId was given
SessionStatus(status) ==
    IF status = "needs_clarification" THEN "needs_clarification" ELSE "completed"

\* the handler: the tables after it and what it returns
persistResearchResult(d, a) ==
    LET sessionId == IF a.sessionId.has THEN a.sessionId.v ELSE Len(d.sessions) + 1
        sessionStatus == SessionStatus(a.status)
        session == IF a.sessionId.has
                   THEN [d.sessions[sessionId] EXCEPT !.status = sessionStatus]
                   ELSE [userId |-> a.userId, status |-> sessionStatus]
        usageLogId == Len(d.usageLogs) + 1
        insightId == Len(d.insights) + 1
        summary == IF a.memorySummary.has THEN a.memorySummary.v
                   ELSE SliceText(a.answer, 280)
        existingMemories == Take(NewestOf(d.episodicMemories, a.userId), 3)
        remembered ==
            IF WritesMemory(a.status) /\ ~isDuplicate(existingMemories, sessionId, summary)
            THEN <<[userId |-> a.userId, sessionId |-> sessionId, insightId |-> insightId,
                    summary |-> summary]>>
            ELSE <<>>
    IN  [db |-> [d EXCEPT
            !.sessions = IF a.sessionId.has THEN [@ EXCEPT ![sessionId] = session]
                         ELSE Append(@, session),
            !.messages = @ \o <<[sessionId |-> sessionId, role |-> "user"],
                                [sessionId |-> sessionId, role |-> "assistant"]>>,
            !.usageLogs = Append(@, [sessionId |-> sessionId]),
            !.insights = Append(@, [sessionId |-> sessionId, status |-> a.status,
                                    asks |-> a.clarificationPrompt.has,
                                    telemetryId |-> usageLogId]),
            !.citations = @ \o [i \in 1..Len(a.citations) |->
                                  [sessionId |-> sessionId, insightId |-> insightId,
                                   sourceId |-> a.citations[i].sourceId,
                                   chunkId |-> a.citations[i].chunkId,
                                   url |-> a.citations[i].url,
                                   relevance |-> a.citations[i].relevance]],
            !.episodicMemories = @ \o remembered],
         ret |-> [sessionId |-> sessionId, insightId |-> insightId]]


(***************************************************************************)
(* The environment of the model: users, queries, the stored corpus, and    *)
(* what hybridScore may return.                                            *)
(***************************************************************************)
Users == {"u1", "u2"}

Modes == {"quick", "deep"}

\* "ok"
ShortQuery == <<111, 107>>

\* "What about this?"
VagueQuery ==
    <<87, 104, 97, 116, 32, 97, 98, 111, 117, 116, 32, 116, 104, 105, 115, 63>>

\* "compare chunking tradeoffs"
ClearQuery ==
    <<99, 111, 109, 112, 97, 114, 101, 32, 99, 104, 117, 110, 107, 105, 110, 103, 32,
      116, 114, 97, 100, 101, 111, 102, 102, 115>>

\* the first is short; the second is long but all weak words; the third is clear
Queries == {ShortQuery, VagueQuery, ClearQuery}

\* "chunking tradeoffs compared"
DocChunking ==
    <<99, 104, 117, 110, 107, 105, 110, 103, 32, 116, 114, 97, 100, 101, 111, 102,
      102, 115, 32, 99, 111, 109, 112, 97, 114, 101, 100>>

\* "token cost notes"
DocCost == <<116, 111, 107, 101, 110, 32, 99, 111, 115, 116, 32, 110, 111, 116, 101, 115>>

\* "# Rag\nchunk size\n# Cost\ntoken price"
DocHeadings ==
    <<35, 32, 82, 97, 103, 10, 99, 104, 117, 110, 107, 32, 115, 105, 122, 101, 10,
      35, 32, 67, 111, 115, 116, 10, 116, 111, 107, 101, 110, 32, 112, 114, 105, 99, 101>>

\* "alpha\n\nbeta"
DocParagraphs == <<97, 108, 112, 104, 97, 10, 10, 98, 101, 116, 97>>

\* the one stored profile; a user without a profile gets DefaultPreferences
StoredProfiles ==
    <<[userId |-> "u2",
       preferences |-> [prefersCodeExamples |-> FALSE, responseVerbosity |-> "concise",
                        citationStyle |-> "footnote"]]>>

FreshDb == [EmptyDb EXCEPT !.profiles = StoredProfiles]

\* two ingested documents, the first of two chunks; sourceUrl is v.string():
\* the second is no URL
SeedDocuments ==
    << [userId |-> "u1", title |-> "Chunking", sourceUrl |-> Url("https", "docs.dev/chunking"),
        content |-> DocHeadings, chunkStrategy |-> "heading-aware"],
       [userId |-> "u1", title |-> "Cost", sourceUrl |-> Url("", "cost notes"),
        content |-> DocCost, chunkStrategy |-> "semantic"] >>

RECURSIVE IngestAll(_, _)
IngestAll(d, docs) ==
    IF docs = <<>> THEN d ELSE IngestAll(ingestDocument(d, Head(docs)).db, Tail(docs))

SeededDb == IngestAll(FreshDb, SeedDocuments)

\* values of hybridScore, in ten-thousandths
ScoreSet == {0, 9000}

\* tokenize(content).length > 0: a run of three letters or digits
HasToken(content) ==
    \E i \in 1..(Len(content) - 2) :
        IsAlnum(content[i]) /\ IsAlnum(content[i + 1]) /\ IsAlnum(content[i + 2])

\* hybridScore(query, content) for every stored chunk: 0 when the query or the
\* content has no token, otherwise some value in [0, 1]
HybridScores(query, d) ==
    {score \in [1..Len(d.ragChunks) -> ScoreSet] :
        \A i \in 1..Len(d.ragChunks) :
            (tokenize(query) = <<>> \/ ~HasToken(d.ragChunks[i].content)) => score[i] = 0}

\* requestSchema.parse(body) of the web route
requestSchema(body) ==
    /\ body.userId # ""
    /\ body.query # <<>>
    /\ body.mode \in Modes

SessionChoices(d) == {None} \cup {Some(i) : i \in 1..Len(d.sessions)}

WellFormed(d) ==
    {[userId |-> u, query |-> q, mode |-> m, sessionId |-> sid] :
        u \in Users, q \in Queries, m \in Modes, sid \in SessionChoices(d)}

Malformed ==
    { [userId |-> "", query |-> ShortQuery, mode |-> "quick", sessionId |-> None],
      [userId |-> "u1", query |-> <<>>, mode |-> "deep", sessionId |-> None],
      [userId |-> "u1", query |-> ShortQuery, mode |-> "fast", sessionId |-> None] }

NoReq == [userId |-> "", query |-> <<>>, mode |-> "quick", sessionId |-> None]

NoSess ==
    [preferences |-> DefaultPreferences, ranked |-> <<>>, sources |-> <<>>,
     recentMemories |-> <<>>]

NoLlm == [response |-> <<>>, error |-> None]

NoOut == [candidate |-> <<>>, final |-> <<>>]

NoResult == [kind |-> "none", response |-> <<>>, ids |-> <<>>]

Raised == [kind |-> "raised", response |-> <<>>, ids |-> <<>>]

NoIng == [n |-> 0, seen |-> {}, args |-> <<>>, ret |-> <<>>]

NoHist == [runs |-> 0, persists |-> 0, calls |-> <<>>]


(***************************************************************************)
(* The research action, one run at a time.                                 *)
(*   pc: idle -> llm -> (summary ->) persist -> done | raised              *)
(***************************************************************************)
Init ==
    /\ db = SeededDb
    /\ ing = NoIng
    /\ pc = "idle"
    /\ req = NoReq
    /\ sess = NoSess
    /\ chain = NoChain
    /\ llm = NoLlm
    /\ out = NoOut
    /\ mem = None
    /\ result = NoResult
    /\ hist = NoHist

CanStart == pc \in {"idle", "done", "raised"} /\ hist.runs < MaxRuns

\* the web route refuses a body that fails requestSchema: no stage runs
RejectRequest ==
    /\ CanStart
    /\ \E body \in Malformed :
        /\ ~requestSchema(body)
        /\ req' = body
    /\ pc' = "raised"
    /\ result' = Raised
    /\ sess' = NoSess /\ chain' = NoChain /\ llm' = NoLlm /\ out' = NoOut /\ mem' = None
    /\ hist' = [hist EXCEPT !.runs = @ + 1, !.calls = <<>>]
    /\ UNCHANGED <<db, ing>>

\* steps 1-3 of runResearch and the entry into callLLMWithFallback
StartRun ==
    /\ CanStart
    /\ \E body \in WellFormed(db) :
        \E score \in HybridScores(body.query, db) :
            LET sessionData == getSessionData(db, body, score)
                systemPrompt == buildSystemPrompt(body.mode, sessionData.preferences,
                                                  citationMap(sessionData),
                                                  sessionData.recentMemories)
                userPrompt == buildUserPrompt(body.query, isAmbiguous(body.query))
            IN  /\ requestSchema(body)
                /\ req' = body
                /\ sess' = sessionData
                /\ chain' = NewChain("primary", body.mode,
                                     TextLen(systemPrompt) + TextLen(userPrompt))
    /\ pc' = "llm"
    /\ result' = NoResult
    /\ llm' = NoLlm /\ out' = NoOut /\ mem' = None
    /\ hist' = [hist EXCEPT !.runs = @ + 1, !.calls = <<>>]
    /\ UNCHANGED <<db, ing>>

\* an observation: the call to provider number idx of the chain invocation with
\* that purpose was issued, or resolved with that text on a reply that had the
\* text field or had not, or threw with that message
Event(ev, c, text, hasText) ==
    [ev |-> ev, idx |-> c.idx, purpose |-> c.purpose, text |-> text, hasText |-> hasText]

\* await provider.call(request, model) is entered
IssueCall ==
    /\ pc \in {"llm", "summary"}
    /\ CanIssue(chain)
    /\ chain' = [chain EXCEPT !.inflight = @ \cup {chain.idx}]
    /\ hist' = [hist EXCEPT !.calls = Append(@, Event("issue", chain, <<>>, FALSE))]
    /\ UNCHANGED <<db, ing, pc, req, sess, llm, out, mem, result>>

\* the awaited call resolves with a 2xx payload
ProviderReturns ==
    /\ pc \in {"llm", "summary"}
    /\ chain.state = "running"
    /\ chain.inflight # {}
    /\ \E payload \in Payloads(chain.purpose) :
        /\ chain' = AfterSuccess(chain, payload)
        /\ hist' = [hist EXCEPT !.calls =
                        Append(@, Event("ok", chain,
                                        ProviderResult(payload, chain.promptLen).text,
                                        payload.hasText))]
    /\ UNCHANGED <<db, ing, pc, req, sess, llm, out, mem, result>>

\* the awaited call throws
ProviderThrows ==
    /\ pc \in {"llm", "summary"}
    /\ chain.state = "running"
    /\ chain.inflight # {}
    /\ \E msg \in Failures(getProviderChain[chain.idx]) :
        /\ chain' = AfterFailure(chain, msg)
        /\ hist' = [hist EXCEPT !.calls = Append(@, Event("fail", chain, <<msg>>, FALSE))]
    /\ UNCHANGED <<db, ing, pc, req, sess, llm, out, mem, result>>

\* steps 4-13: the chain has settled; parse, score, assemble, validate; then
\* enter generateMemorySummary if the candidate's status is "answered"
Synthesize ==
    /\ pc = "llm"
    /\ chain.state \in {"resolved", "rejected"}
    /\ LET llmError == IF chain.state = "rejected" THEN Some(chain.errors) ELSE None
           llmResponse == IF chain.state = "resolved" THEN chain.response[1]
                          ELSE TemplateResponse(req, sess, chain.promptLen)
           candidate == responseCandidate(req, sess, llmResponse, llmError)
       IN  /\ llm' = [response |-> llmResponse, error |-> llmError]
           /\ out' = [candidate |-> candidate, final |-> finalResponse(candidate)]
           /\ IF candidate.status = "answered"
              THEN /\ pc' = "summary"
                   /\ chain' = NewChain("summary", "quick",
                                        TextLen(SummaryPrompt(req.query, candidate.answer)))
              ELSE /\ pc' = "persist"
                   /\ chain' = chain
    /\ UNCHANGED <<db, ing, req, sess, mem, result, hist>>

\* step 14: generateMemorySummary's chain call has settled
Summarize ==
    /\ pc = "summary"
    /\ chain.state \in {"resolved", "rejected"}
    /\ mem' = Some(generateMemorySummary(req.query, out.candidate.answer, chain))
    /\ pc' = "persist"
    /\ hist' = [hist EXCEPT !.calls = <<>>]
    /\ UNCHANGED <<db, ing, req, sess, chain, llm, out, result>>

\* step 15 and the return: the mutation runs as one transaction, or its
\* argument validator throws and the action is rejected with that error
Persist ==
    /\ pc = "persist"
    /\ LET a == PersistArgs(req, out.candidate.citations, out.final, llm.response,
                            llm.error, mem)
       IN  IF ArgsAccepted(a)
           THEN /\ db' = persistResearchResult(db, a).db
                /\ result' = [kind |-> "returned", response |-> out.final,
                              ids |-> persistResearchResult(db, a).ret]
                /\ pc' = "done"
                /\ hist' = [hist EXCEPT !.persists = @ + 1]
           ELSE /\ db' = db
                /\ result' = Raised
                /\ pc' = "raised"
                /\ hist' = hist
    /\ UNCHANGED <<ing, req, sess, chain, llm, out, mem>>

Next ==
    \/ RejectRequest
    \/ StartRun
    \/ IssueCall
    \/ ProviderReturns
    \/ ProviderThrows
    \/ Synthesize
    \/ Summarize
    \/ Persist

Spec == Init /\ [][Next]_vars


(***************************************************************************)
(* persistResearchResult called over and over, with arguments from a small *)
(* set: the sessions and the memories of several runs.                     *)
(***************************************************************************)
StoredCitation ==
    [sourceId |-> 1, chunkId |-> 1, title |-> "Chunking",
     url |-> Url("https", "docs.dev/chunking"), snippet |-> DocChunking,
     relevance |-> 9000]

LabelledCitation ==
    [sourceId |-> 1, chunkId |-> 1, title |-> "Chunking",
     url |-> Url("https", "docs.dev/chunking"), snippet |-> DocChunking,
     relevance |-> 9000, label |-> 1]

PersistCase(userId, status, memorySummary, citations) ==
    [userId |-> userId, query |-> ClearQuery, mode |-> "quick",
     sessionId |-> None,
     answer |-> <<Seg("words")>>, status |-> status,
     citations |-> citations,
     tradeoffs |-> <<>>,
     followUpQuestions |-> <<"compare", "deployment", "benchmark">>,
     clarificationPrompt |->
        IF status = "needs_clarification"
        THEN Some([question |-> <<Seg("defaultQuestion")>>, reason |-> "needs more context"])
        ELSE None,
     confidence |-> 500,
     limitations |-> <<>>,
     provider |-> "gemini", model |-> "gemini-2.0-flash", route |-> "primary",
     promptTokens |-> 120, completionTokens |-> 80, totalTokens |-> 200,
     estimatedCostUsd |-> estimateCost("gemini-2.0-flash", 200),
     latencyMs |-> 0,
     llmError |-> None,
     memorySummary |-> memorySummary,
     memoryTags |-> None]

\* summaries 1 and 2 agree on their first 80 characters
PersistCases ==
    { PersistCase("u1", "answered", Some(SummaryOf(1)), <<>>),
      PersistCase("u1", "answered", Some(SummaryOf(2)), <<StoredCitation>>),
      PersistCase("u1", "needs_clarification", None, <<StoredCitation>>),
      PersistCase("u2", "fallback", None, <<>>),
      PersistCase("u2", "answered", Some(SummaryOf(3)), <<LabelledCitation>>) }

InitPersist ==
    /\ db = SeededDb
    /\ ing = NoIng
    /\ pc = "idle"
    /\ req = NoReq
    /\ sess = NoSess
    /\ chain = NoChain
    /\ llm = NoLlm
    /\ out = NoOut
    /\ mem = None
    /\ result = NoResult
    /\ hist = NoHist

\* one call of the mutation: req holds its arguments, result what it returned
PersistCall ==
    /\ hist.persists < MaxPersist
    /\ \E base \in PersistCases :
        \E sid \in SessionChoices(db) :
            LET a == [base EXCEPT !.sessionId = sid]
            IN  /\ req' = a
                /\ IF ArgsAccepted(a)
                   THEN /\ db' = persistResearchResult(db, a).db
                        /\ result' = [kind |-> "returned", response |-> <<>>,
                                      ids |-> persistResearchResult(db, a).ret]
                   ELSE /\ db' = db
                        /\ result' = Raised
    /\ hist' = [hist EXCEPT !.persists = @ + 1]
    /\ UNCHANGED <<ing, pc, sess, chain, llm, out, mem>>

NextPersist == PersistCall

SpecPersist == InitPersist /\ [][NextPersist]_vars

(***************************************************************************)
(* ingestDocument called over and over.                                    *)
(***************************************************************************)
IngestContents == {DocHeadings, <<65, 97>>, <<66, 66>>}

IngestInputs ==
    {[userId |-> "u1", title |-> "Doc", sourceUrl |-> url, content |-> content,
      chunkStrategy |-> strategy] :
        url \in {Url("https", "docs.dev/a"), Url("https", "docs.dev/b")},
        content \in IngestContents,
        strategy \in {"fixed", "heading-aware", "semantic"}}

InitIngest ==
    /\ db = FreshDb
    /\ ing = NoIng
    /\ pc = "idle"
    /\ req = NoReq
    /\ sess = NoSess
    /\ chain = NoChain
    /\ llm = NoLlm
    /\ out = NoOut
    /\ mem = None
    /\ result = NoResult
    /\ hist = NoHist

\* one call of ingestDocument: ing holds its arguments, what it returned, and
\* the (sourceUrl, content) pairs of the calls so far
Ingest ==
    /\ ing.n < MaxIngest
    /\ \E args \in IngestInputs :
        /\ db' = ingestDocument(db, args).db
        /\ ing' = [n |-> ing.n + 1,
                   seen |-> ing.seen \cup {<<args.sourceUrl, args.content>>},
                   args |-> args,
                   ret |-> ingestDocument(db, args).ret]
    /\ UNCHANGED <<pc, req, sess, chain, llm, out, mem, result, hist>>

NextIngest == Ingest

SpecIngest == InitIngest /\ [][NextIngest]_vars


(***************************************************************************)
(* The provider chain.  hist.calls lists, in order, what happened to the   *)
(* provider calls of the run in flight.                                    *)
(***************************************************************************)
\* the chain invocation in flight is under observation
Observed == pc \in {"llm", "summary"}

\* the call to provider number i of the invocation in flight has thrown
Failed(i) ==
    \E k \in 1..Len(hist.calls) :
        /\ hist.calls[k].ev = "fail"
        /\ hist.calls[k].idx = i
        /\ hist.calls[k].purpose = chain.purpose

\* the call to provider number i of the invocation in flight has resolved
Succeeded(i) ==
    \E k \in 1..Len(hist.calls) :
        /\ hist.calls[k].ev = "ok"
        /\ hist.calls[k].idx = i
        /\ hist.calls[k].purpose = chain.purpose

\* the text the call to provider number i resolved with
TextOf(i) ==
    hist.calls[CHOOSE k \in 1..Len(hist.calls) :
                    /\ hist.calls[k].ev = "ok"
                    /\ hist.calls[k].idx = i
                    /\ hist.calls[k].purpose = chain.purpose].text

ChainOrder == <<"gemini", "groq", "cerebras">>

\* C1: callLLMWithFallback is rejected exactly when the calls to all three
\* providers have thrown; it resolves exactly when one call has resolved, and
\* then with the response of the first provider, in the order gemini, groq,
\* cerebras, whose call resolved, every provider before it having thrown.
C1_RaisesOnlyWhenAllFail ==
    Observed =>
        /\ chain.state = "rejected" <=> \A i \in 1..3 : Failed(i)
        /\ chain.state = "resolved" <=> \E i \in 1..3 : Succeeded(i)
        /\ \A i \in 1..3 :
            Succeeded(i) =>
                /\ \A j \in 1..(i - 1) : Failed(j) /\ ~Succeeded(j)
                /\ chain.response[1].provider = ChainOrder[i]
                /\ chain.response[1].text = TextOf(i)

\* the second provider answered after the first one failed
C1_Witness ==
    /\ Observed
    /\ chain.state = "resolved"
    /\ Failed(1)
    /\ Succeeded(2)
    /\ chain.response[1].provider = "groq"

\* C2: the provider calls of a run happen one after the other: a call is
\* issued only when the call before it has thrown (or, for the first provider
\* of the summary invocation, when the research invocation has resolved), a
\* call settles only right after it was issued, so no two calls are ever in
\* flight together, and nothing follows a call that resolved but the first
\* call of the next invocation.
C2_StrictlySequential ==
    Observed =>
        /\ Cardinality(chain.inflight) <= 1
        /\ \A k \in 1..Len(hist.calls) :
            LET e == hist.calls[k]
            IN  /\ e.ev = "issue" /\ e.idx = 1 =>
                    \/ k = 1 /\ e.purpose = "primary"
                    \/ /\ k > 1
                       /\ e.purpose = "summary"
                       /\ hist.calls[k - 1].ev = "ok"
                       /\ hist.calls[k - 1].purpose = "primary"
                /\ e.ev = "issue" /\ e.idx > 1 =>
                    /\ k > 1
                    /\ hist.calls[k - 1].ev = "fail"
                    /\ hist.calls[k - 1].idx = e.idx - 1
                    /\ hist.calls[k - 1].purpose = e.purpose
                /\ e.ev \in {"ok", "fail"} =>
                    /\ k > 1
                    /\ hist.calls[k - 1].ev = "issue"
                    /\ hist.calls[k - 1].idx = e.idx
                    /\ hist.calls[k - 1].purpose = e.purpose

\* the third provider is being called, the first two having failed in turn
C2_Witness ==
    /\ Observed
    /\ chain.inflight = {3}
    /\ Len(hist.calls) = 5
    /\ hist.calls[5].ev = "issue"
    /\ hist.calls[4].ev = "fail"

\* C3: the response of callLLMWithFallback has route "primary" exactly when the
\* provider at the head of the chain is the one that resolved; when the third
\* provider resolved after the first two threw, the response has route
\* "fallback", provider "cerebras", and cerebras' model for the requested mode.
C3_RouteTellsPosition ==
    Observed /\ chain.state = "resolved" =>
        /\ chain.response[1].route = "primary" <=> Succeeded(1)
        /\ chain.response[1].route \in {"primary", "fallback"}
        /\ Succeeded(3) =>
            /\ Failed(1) /\ Failed(2)
            /\ chain.response[1].route = "fallback"
            /\ chain.response[1].provider = "cerebras"
            /\ chain.response[1].model = "llama-3.3-70b"

\* providers 1 and 2 failed and provider 3 resolved, in deep mode
C3_Witness ==
    /\ Observed
    /\ chain.state = "resolved"
    /\ chain.mode = "deep"
    /\ Failed(1) /\ Failed(2) /\ Succeeded(3)
    /\ chain.response[1].route = "fallback"


(***************************************************************************)
(* What a run hands back to its caller.                                    *)
(***************************************************************************)
\* the run has ended: it returned a response, or it was rejected with an error
Ended == pc \in {"done", "raised"}

\* buildAnswer over the snippets of the three best retrieved chunks
TemplateAnswer ==
    LET top == Take(sess.ranked, 3)
    IN  buildAnswer(req.mode, req.query,
                    [i \in 1..Len(top) |-> snippet(top[i].content, 220)],
                    sess.preferences.prefersCodeExamples,
                    sess.preferences.responseVerbosity)

\* C4: a run whose provider chain was rejected does not raise: it returns a
\* response whose answer is the template built from the retrieved snippets,
\* whose telemetry has route "fallback", model "fallback-local" and the last
\* provider of the chain, and whose status is "fallback" when the query is not
\* ambiguous; no provider is called for that answer.
C4_ChainFailureStillAnswers ==
    Ended /\ llm.error.has =>
        /\ result.kind = "returned"
        /\ result.response.answer = TemplateAnswer
        /\ result.response.telemetry.route = "fallback"
        /\ result.response.telemetry.model = "fallback-local"
        /\ result.response.telemetry.provider = ChainOrder[3]
        /\ ~isAmbiguous(req.query) => result.response.status = "fallback"
        /\ Len(hist.calls) = 6

\* C5: a run raises only on a malformed request: every request that has
\* userId, query and mode ends with a response returned to the caller, whatever
\* the providers, the parser and the validation did.
C5_OnlyMalformedRequestsRaise ==
    Ended => (result.kind = "raised" <=> ~requestSchema(req))

\* C6: every response a run returns satisfies researchResponseSchema, its
\* telemetry included, whatever text and token usage the providers returned.
C6_ReturnedResponseIsValid ==
    pc = "done" => researchResponseSchema(result.response)

\* C7 as stated: every run whose query isAmbiguous returns a response, and
\* persists an insight, with status "needs_clarification", whatever the
\* generator returned.
C7_AmbiguousAlwaysAsks ==
    pc = "done" /\ isAmbiguous(req.query) =>
        /\ result.response.status = "needs_clarification"
        /\ db.insights[result.ids.insightId].status = "needs_clarification"

\* C7: every run whose query isAmbiguous returns a response, and persists an
\* insight, with status "needs_clarification" when the assembled response
\* passed the schema validation, and with status "fallback" when it did not
\* and the minimal response was substituted.
C7_AmbiguousAsksWhenValid ==
    pc = "done" /\ isAmbiguous(req.query) =>
        LET status == IF researchResponseSchema(out.candidate)
                      THEN "needs_clarification" ELSE "fallback"
        IN  /\ result.response.status = status
            /\ db.insights[result.ids.insightId].status = status

\* an ambiguous query, every provider failed, and the run still asks back
C7_Witness ==
    /\ pc = "done"
    /\ isAmbiguous(req.query)
    /\ llm.error.has
    /\ result.response.status = "needs_clarification"
    /\ db.insights[result.ids.insightId].status = "needs_clarification"


(***************************************************************************)
(* What persistResearchResult writes.  In SpecPersist a step is one call:  *)
(* req' holds its arguments and result' what it returned.                  *)
(***************************************************************************)
\* this step is a call of the mutation that ran to its end
Persisted == hist'.persists = hist.persists + 1 /\ result'.kind = "returned"

\* C8: a call of persistResearchResult with status "needs_clarification"
\* leaves the episodic memories as they were, and still writes the session
\* (a new row, or the status of the given one), the two messages, the usage
\* log, the insight and one citation row for every citation it was given.
C8_NoMemoryWhenClarifying ==
    [][ Persisted /\ req'.status = "needs_clarification" =>
            /\ db'.episodicMemories = db.episodicMemories
            /\ IF req'.sessionId.has
               THEN /\ Len(db'.sessions) = Len(db.sessions)
                    /\ db'.sessions[req'.sessionId.v].status = "needs_clarification"
               ELSE /\ Len(db'.sessions) = Len(db.sessions) + 1
                    /\ db'.sessions[Len(db'.sessions)].status = "needs_clarification"
            /\ Len(db'.messages) = Len(db.messages) + 2
            /\ Len(db'.usageLogs) = Len(db.usageLogs) + 1
            /\ Len(db'.insights) = Len(db.insights) + 1
            /\ db'.insights[Len(db'.insights)].status = "needs_clarification"
            /\ Len(db'.citations) = Len(db.citations) + Len(req'.citations)
      ]_vars

\* a clarifying run with a citation was persisted while memories existed
C8_Witness ==
    /\ hist.persists >= 2
    /\ result.kind = "returned"
    /\ req.status = "needs_clarification"
    /\ Len(req.citations) = 1
    /\ Len(db.episodicMemories) >= 1
    /\ db.citations[Len(db.citations)].insightId = result.ids.insightId

\* the positions in memories of the three most recent rows of that session
RecentOfSession(memories, sessionId) ==
    LET own == {i \in 1..Len(memories) : memories[i].sessionId = sessionId}
    IN  {i \in own : Cardinality({j \in own : j > i}) < 3}

\* C9: a call of persistResearchResult inserts no episodic memory when one of
\* the three most recent memories of its own session has the same first 80
\* characters as the summary it would store, whatever other sessions of the
\* user have stored in between.
C9_NoDuplicateInSession ==
    [][ Persisted =>
            LET summary == IF req'.memorySummary.has THEN req'.memorySummary.v
                           ELSE SliceText(req'.answer, 280)
                recent == RecentOfSession(db.episodicMemories, result'.ids.sessionId)
            IN  (\E i \in recent : SliceText(db.episodicMemories[i].summary, 80)
                                        = SliceText(summary, 80))
                    => db'.episodicMemories = db.episodicMemories
      ]_vars

(***************************************************************************)
(* What ingestDocument writes.  In SpecIngest a step is one call: ing'     *)
(* holds its arguments, what it returned, and the documents seen so far.   *)
(***************************************************************************)
\* C10: a call of ingestDocument whose sourceUrl and content have the
\* fingerprint of a stored source changes no table and returns accepted =
\* FALSE, chunkCount = 0 and the id of that source; so a (sourceUrl, content)
\* pair that was ingested before is never stored again.
C10_IngestIsIdempotent ==
    [][ ing'.n = ing.n + 1 =>
            LET args == ing'.args
                stored == {i \in 1..Len(db.sources) :
                              db.sources[i].contentHash
                                  = contentHash(args.sourceUrl, args.content)}
            IN  /\ stored # {} =>
                    /\ db' = db
                    /\ ing'.ret.accepted = FALSE
                    /\ ing'.ret.chunkCount = 0
                    /\ ing'.ret.sourceId \in stored
                /\ <<args.sourceUrl, args.content>> \in ing.seen =>
                    /\ db' = db
                    /\ stored # {}
      ]_vars

\* the same fingerprint was offered three times and is stored once
C10_Witness ==
    /\ ing.n = 3
    /\ Len(db.sources) = 1
    /\ Len(db.ragDocuments) = 1
    /\ ing.ret.accepted = FALSE
    /\ ing.ret.chunkCount = 0
    /\ ing.ret.sourceId = 1


(***************************************************************************)
(* Citations and the prompt.                                               *)
(***************************************************************************)
\* the response of the run in flight has been assembled
Assembled == out # NoOut

\* the system prompt StartRun handed to callLLMWithFallback
SystemPromptSent ==
    buildSystemPrompt(req.mode, sess.preferences, citationMap(sess), sess.recentMemories)

IsLabelSeg(seg) == seg.k = "label"

IsSnippetSeg(seg) == seg.k = "snippet"

\* C11: in every assembled response with citations, the labels are 1..N in
\* list order, N the number of ranked chunks, and citation k is the ranked
\* chunk whose snippet stands under the marker [k] of the system prompt.
C11_LabelsFollowThePrompt ==
    Assembled /\ Len(out.final.citations) > 0 =>
        LET cs == out.final.citations
            markers == SelectSeq(SystemPromptSent, IsLabelSeg)
            shown == SelectSeq(SystemPromptSent, IsSnippetSeg)
        IN  /\ Len(cs) = Len(sess.ranked)
            /\ Len(markers) = Len(cs)
            /\ Len(shown) = Len(cs)
            /\ \A k \in 1..Len(cs) :
                /\ cs[k].label = k
                /\ markers[k].v = k
                /\ shown[k].v = cs[k].snippet
                /\ cs[k].chunkId = sess.ranked[k].chunkId
                /\ cs[k].snippet = snippet(sess.ranked[k].content, 220)

\* a response with two citations of different chunks was assembled
C11_Witness ==
    /\ Assembled
    /\ Len(out.final.citations) = 2
    /\ out.final.citations[1].chunkId # out.final.citations[2].chunkId
    /\ out.final.citations[2].label = 2


(***************************************************************************)
(* Ranking: getSessionData over a growing chunk table.  req holds the      *)
(* arguments of the query and the hybridScore of every stored chunk, sess  *)
(* what getSessionData returned.                                           *)
(***************************************************************************)
MaxChunks == 10

\* values of hybridScore around the threshold of 0.05, in ten-thousandths
RankScores == {500, 501, 9000}

\* "doc" followed by one letter: one chunk under the fixed strategy
RankDocument(n) ==
    [userId |-> "u1", title |-> "Doc", sourceUrl |-> Url("https", "docs.dev/rank"),
     content |-> <<100, 111, 99, 96 + n>>, chunkStrategy |-> "fixed"]

\* the deployment before anything was ingested or asked
InitFresh ==
    /\ db = FreshDb
    /\ ing = NoIng
    /\ pc = "idle"
    /\ req = NoReq
    /\ sess = NoSess
    /\ chain = NoChain
    /\ llm = NoLlm
    /\ out = NoOut
    /\ mem = None
    /\ result = NoResult
    /\ hist = NoHist

\* one more document of one chunk is ingested
StoreChunk ==
    /\ pc = "idle"
    /\ Len(db.ragChunks) < MaxChunks
    /\ db' = ingestDocument(db, RankDocument(Len(db.ragChunks) + 1)).db
    /\ UNCHANGED <<ing, pc, req, sess, chain, llm, out, mem, result, hist>>

\* one call of getSessionData
RankQuery ==
    /\ pc = "idle"
    /\ \E mode \in Modes :
        \E score \in [1..Len(db.ragChunks) -> RankScores] :
            LET args == [userId |-> "u1", query |-> ClearQuery,
                         mode |-> mode]
            IN  /\ req' = [userId |-> args.userId, query |-> args.query, mode |-> mode,
                           sessionId |-> None, score |-> score]
                /\ sess' = getSessionData(db, args, score)
    /\ pc' = "ranked"
    /\ UNCHANGED <<db, ing, chain, llm, out, mem, result, hist>>

NextRank == StoreChunk \/ RankQuery

SpecRank == InitFresh /\ [][NextRank]_vars

\* C12: what getSessionData ranks is exactly the best chunks of score above
\* 0.05: min(K, number of such chunks) of them, K = 4 in quick and 8 in deep
\* mode, by score descending and, at equal score, in chunk order, and no chunk
\* left out would come before one that was kept.
C12_RankedIsTopKAboveThreshold ==
    pc = "ranked" =>
        LET r == sess.ranked
            k == IF req.mode = "quick" THEN 4 ELSE 8
            above == {i \in 1..Len(db.ragChunks) : req.score[i] > 500}
            kept == {r[j].chunkId : j \in 1..Len(r)}
        IN  /\ kept \subseteq above
            /\ Len(r) = Min(k, Cardinality(above))
            /\ \A j \in 1..Len(r) :
                /\ r[j].relevance = req.score[r[j].chunkId]
                /\ r[j].content = db.ragChunks[r[j].chunkId].content
            /\ \A j \in 1..Len(r) : \A l \in (j + 1)..Len(r) :
                \/ r[j].relevance > r[l].relevance
                \/ r[j].relevance = r[l].relevance /\ r[j].chunkId < r[l].chunkId
            /\ \A i \in above \ kept : \A j \in 1..Len(r) :
                \/ r[j].relevance > req.score[i]
                \/ r[j].relevance = req.score[i] /\ r[j].chunkId < i

\* a deep query over ten chunks, nine of them above the threshold and one at
\* exactly 0.05, with ties among the eight kept
C12_Witness ==
    /\ pc = "ranked" /\ req.mode = "deep" /\ Len(sess.ranked) = 8
    /\ Cardinality({i \in 1..Len(db.ragChunks) : req.score[i] > 500}) = 9
    /\ \E i \in 1..Len(db.ragChunks) : req.score[i] = 500
    /\ sess.ranked[1].relevance = 9000 /\ sess.ranked[1].chunkId = 5
    /\ sess.ranked[2].relevance = 501 /\ sess.ranked[8].relevance = 501


(***************************************************************************)
(* Step 14: the substitute of a response that fails validation.            *)
(***************************************************************************)
ValidationFailed == Assembled /\ ~researchResponseSchema(out.candidate)

\* C13: whenever the assembled response fails validation, the response that
\* replaces it, and that is returned if the run returns, has status fallback,
\* confidence 0.15, no citations, no tradeoffs, exactly one follow-up (the
\* generic one), no clarificationPrompt, and exactly the limitation that notes
\* the validation failure.
C13_SubstituteIsMinimal ==
    ValidationFailed =>
        /\ out.final.status = "fallback"
        /\ out.final.confidence = 150
        /\ out.final.citations = <<>>
        /\ out.final.tradeoffs = <<>>
        /\ out.final.followUpQuestions = <<"retry with a narrower scope">>
        /\ out.final.clarificationPrompt = None
        /\ Len(out.final.limitations) = 1
        /\ out.final.limitations[1].kind = "validation failed"
        /\ out.final.mode = req.mode
        /\ result.kind = "returned" => result.response = out.final

\* a run that answered from the provider's text returns the substitute
C13_Witness ==
    /\ ValidationFailed /\ result.kind = "returned"
    /\ out.candidate.status = "answered"
    /\ out.candidate.tradeoffs # <<>>


(***************************************************************************)
(* The error of an exhausted chain.                                        *)
(***************************************************************************)
\* the message the call to provider number i of the invocation in flight threw
MessageOf(i) ==
    hist.calls[CHOOSE k \in 1..Len(hist.calls) :
                    /\ hist.calls[k].ev = "fail"
                    /\ hist.calls[k].idx = i
                    /\ hist.calls[k].purpose = chain.purpose].text[1]

\* C14: the error of a rejected callLLMWithFallback has exactly one line per
\* provider of the chain, in chain order, line i carrying the name of provider
\* i, the model of provider i for the mode of the request, and the message the
\* call to provider i threw.
C14_AggregateErrorNamesEveryFailure ==
    Observed /\ chain.state = "rejected" =>
        /\ Len(chain.errors) = Len(getProviderChain)
        /\ \A i \in 1..Len(getProviderChain) :
            /\ chain.errors[i].provider = ChainOrder[i]
            /\ chain.errors[i].provider = getProviderChain[i].name
            /\ chain.errors[i].model =
                   IF chain.mode = "deep" THEN getProviderChain[i].deepModel
                   ELSE getProviderChain[i].quickModel
            /\ Failed(i)
            /\ chain.errors[i].msg = MessageOf(i)

\* a deep research invocation whose three calls threw, each with its own message
C14_Witness ==
    /\ pc = "llm" /\ chain.state = "rejected" /\ chain.mode = "deep"
    /\ Len(chain.errors) = 3
    /\ chain.errors[1].msg # chain.errors[2].msg
    /\ chain.errors[3].model = "llama-3.3-70b"


(***************************************************************************)
(* Chunking: chunkByStrategy applied to one text.  ing.args holds the      *)
(* content and the strategy, ing.ret the chunks returned.                  *)
(***************************************************************************)
MaxText == 5

ChunkStrategies == {"fixed", "heading-aware", "semantic"}

\* a letter, a capital, and the characters the chunkers look for
ChunkAlphabet == {97, 66, SPACE, LF, CR, HASH, COLON}

ShortTexts == UNION {[1..n -> ChunkAlphabet] : n \in 0..MaxText}

\* character i of a long text: paragraphs of one line of 600 characters, an
\* empty line between them, words of 6 letters that follow the alphabet
LongChar(i) ==
    IF i % 601 \in {0, 1} THEN LF
    ELSE IF i % 7 = 0 THEN SPACE
    ELSE 97 + (i % 26)

\* texts longer than one window of chunkFixed and than the limit of a bucket,
\* and one of them with a letter for every line end: a single paragraph
LongTexts ==
    {[i \in 1..n |-> LongChar(i)] : n \in {1000, 2000}}
        \cup {[i \in 1..1000 |-> IF LongChar(i) = LF THEN 110 ELSE LongChar(i)]}

ChunkInputs == ShortTexts \cup LongTexts

\* one call of chunkByStrategy
Chunk ==
    /\ pc = "idle"
    /\ \E content \in ChunkInputs : \E chunkStrategy \in ChunkStrategies :
        ing' = [n |-> 1, seen |-> {},
                args |-> [content |-> content, chunkStrategy |-> chunkStrategy],
                ret |-> chunkByStrategy(content, chunkStrategy)]
    /\ pc' = "chunked"
    /\ UNCHANGED <<db, req, sess, chain, llm, out, mem, result, hist>>

SpecChunk == InitFresh /\ [][Chunk]_vars

Chunked == pc = "chunked"

AllSpace(s) == \A i \in 1..Len(s) : IsSpace(s[i])

\* C15: chunkByStrategy returns no chunk whose text is empty or all white
\* space, whatever the text and the strategy, and returns no chunk at all for a
\* text that is empty or all white space.
C15_NoEmptyChunk ==
    Chunked =>
        /\ \A k \in 1..Len(ing.ret) : ~AllSpace(ing.ret[k].text)
        /\ AllSpace(ing.args.content) => ing.ret = <<>>

\* a text of blanks and line ends only, chunked by paragraphs: no chunk
C15_Witness ==
    /\ Chunked /\ ing.args.chunkStrategy = "semantic"
    /\ ing.args.content = <<SPACE, LF, LF, CR, LF>>
    /\ ing.ret = <<>>

\* the characters of a text that are not white space, in order
Content(s) ==
    LET Keep(i) == ~IsSpace(s[i])
    IN  Pick(s, SelectSeq(Positions(s), Keep))

\* the chunks, in order, lay out the target from position done + 1 on, each
\* chunk starting where the one before it ended or inside what that one covered
RECURSIVE Reassembles(_, _, _)
Reassembles(target, done, chunks) ==
    IF chunks = <<>> THEN done = Len(target)
    ELSE LET c == Content(Head(chunks).text)
         IN  \E overlap \in 0..Min(done, Len(c)) :
                LET start == done - overlap
                IN  /\ start + Len(c) <= Len(target)
                    /\ SubSeq(target, start + 1, start + Len(c)) = c
                    /\ Reassembles(target, start + Len(c), Tail(chunks))

\* C16: the texts of the chunks, put one after the other with the overlap of
\* consecutive chunks counted once, give back every character of the input
\* that is not white space, in order, whatever the text and the strategy.
C16_ChunksReconstructContent ==
    Chunked => Reassembles(Content(ing.args.content), 0, ing.ret)


(***************************************************************************)
(* Scoring: steps 7 and 14 of runResearch on signals of every kind.  req   *)
(* holds the signals, out the candidate that carries the score and what    *)
(* step 14 makes of it.                                                    *)
(***************************************************************************)
\* the signals a run can have, for a few values of each: the average relevance
\* of the ranked chunks above 0.05 and at most 1, no more chunks than the mode
\* allows, no more sources than chunks, no source without a chunk
PossibleSignals ==
    {s \in
        {[relevanceSum |-> avg * found, sourcesCount |-> sources, chunksFound |-> found,
          maxChunks |-> ChunkLimit(mode), answerLength |-> len,
          hasCodeBlocks |-> code, hasStructuredSections |-> sections,
          llmSelfConfidence |-> self, clarificationRequired |-> clarify,
          llmFailed |-> failed, mode |-> mode] :
            avg \in {501, 5000, 10000}, found \in {0, 1, 3, 4, 8},
            sources \in {0, 1, 3, 5}, len \in {0, 100, 600, 2400, 5000},
            code \in BOOLEAN, sections \in BOOLEAN,
            self \in {None, Some(0), Some(500), Some(1000)},
            clarify \in BOOLEAN, failed \in BOOLEAN, mode \in Modes} :
        /\ s.chunksFound <= s.maxChunks
        /\ s.sourcesCount <= s.chunksFound
        /\ s.sourcesCount = 0 <=> s.chunksFound = 0}

\* the telemetry of a provider reply with the usage counts it reported
TelemetryOf(promptTokens) ==
    [provider |-> "gemini", model |-> "gemini-2.0-flash", route |-> "primary",
     promptTokens |-> promptTokens, completionTokens |-> 80,
     totalTokens |-> promptTokens + 80,
     estimatedCostUsd |-> estimateCost("gemini-2.0-flash", promptTokens + 80),
     latencyMs |-> 0]

\* steps 7 to 14 for one set of signals and one provider reply
Score ==
    /\ pc = "idle"
    /\ \E signals \in PossibleSignals : \E promptTokens \in {120, -1} :
        LET candidate ==
                [mode |-> signals.mode,
                 status |-> StatusOf(signals.clarificationRequired, signals.llmFailed),
                 answer |-> <<>>, citations |-> <<>>, tradeoffs |-> <<>>,
                 followUpQuestions |-> <<"compare", "deployment", "benchmark">>,
                 clarificationPrompt |-> None,
                 confidence |-> computeConfidence(signals),
                 limitations |-> <<>>,
                 telemetry |-> TelemetryOf(promptTokens)]
        IN  /\ req' = signals
            /\ out' = [candidate |-> candidate, final |-> finalResponse(candidate)]
    /\ pc' = "scored"
    /\ UNCHANGED <<db, ing, sess, chain, llm, mem, result, hist>>

SpecScore == InitFresh /\ [][Score]_vars

\* C17: the score computeConfidence gives is between 0.10 and 0.95 whatever
\* the signals, and so is the confidence of the response step 14 lets through,
\* which is that score or the 0.15 of the substitute.
C17_ConfidenceWithinBounds ==
    pc = "scored" =>
        /\ out.candidate.confidence = computeConfidence(req)
        /\ out.candidate.confidence >= 100 /\ out.candidate.confidence <= 950
        /\ out.final.confidence >= 100 /\ out.final.confidence <= 950
        /\ out.final.confidence \in {out.candidate.confidence, 150}

\* signals whose weighted sum is above 0.95, scored 0.95, in a response that
\* fails validation and is replaced
C17_Witness ==
    /\ pc = "scored"
    /\ rawConfidence(req) > 950
    /\ out.candidate.confidence = 950
    /\ ~researchResponseSchema(out.candidate)
    /\ out.final.confidence = 150


(***************************************************************************)
(* The ambiguity gate: step 1 of runResearch on queries put together from  *)
(* words.  req holds the parts and the query they make, out the gate's     *)
(* verdict.                                                                *)
(***************************************************************************)
MaxWords == 3

\* "ok", "What", "about", "this", "Compare", "LoRA"
Vocabulary ==
    { <<111, 107>>, <<87, 104, 97, 116>>, <<97, 98, 111, 117, 116>>,
      <<116, 104, 105, 115>>, <<67, 111, 109, 112, 97, 114, 101>>,
      <<76, 111, 82, 65>> }

\* the words with the separators between them
RECURSIVE JoinWords(_, _)
JoinWords(words, seps) ==
    IF Len(words) = 1 THEN words[1]
    ELSE words[1] \o seps[1] \o JoinWords(Tail(words), Tail(seps))

\* const clarificationRequired = isAmbiguous(args.query), for a query of up to
\* MaxWords words with " " or ", " between two of them, nothing or "  " before
\* the first and nothing, "?" or " \n" after the last
Gate ==
    /\ pc = "idle"
    /\ \E n \in 1..MaxWords :
        \E words \in [1..n -> Vocabulary] :
            \E seps \in [1..(n - 1) -> {<<SPACE>>, <<44, SPACE>>}] :
                \E lead \in {<<>>, <<SPACE, SPACE>>} :
                    \E trail \in {<<>>, <<63>>, <<SPACE, LF>>} :
                        LET query == lead \o JoinWords(words, seps) \o trail
                        IN  /\ req' = [userId |-> "u1", query |-> query,
                                       mode |-> "quick", sessionId |-> None,
                                       words |-> words, seps |-> seps, trail |-> trail]
                            /\ out' = [clarificationRequired |-> isAmbiguous(query)]
    /\ pc' = "gated"
    /\ UNCHANGED <<db, ing, sess, chain, llm, mem, result, hist>>

SpecGate == InitFresh /\ [][Gate]_vars

\* C18: the gate asks for clarification exactly when the query, without the
\* white space around it, has fewer than 12 characters, or fewer than 2 of its
\* words are left once the words of 1 or 2 characters and the words of the
\* weak list, whatever their case, are set aside.
C18_AmbiguousIffShortOrVague ==
    pc = "gated" =>
        LET n == Len(req.words)
            lower == [i \in 1..n |-> [k \in 1..Len(req.words[i]) |-> ToLower(req.words[i][k])]]
            trimmed == SumSeq([i \in 1..n |-> Len(req.words[i])])
                         + SumSeq([i \in 1..(n - 1) |-> Len(req.seps[i])])
                         + (IF req.trail = <<63>> THEN 1 ELSE 0)
            left == {i \in 1..n : Len(lower[i]) > 2 /\ lower[i] \notin WEAK_WORDS}
        IN  out.clarificationRequired <=> (trimmed < 12 \/ Cardinality(left) < 2)

\* "What about this?": 16 characters, and every word on the weak list
C18_Witness ==
    /\ pc = "gated" /\ req.query = VagueQuery
    /\ Len(Trim(req.query)) >= 12
    /\ out.clarificationRequired


(***************************************************************************)
(* A 2xx reply without the text field.                                     *)
(***************************************************************************)
\* C19: a call whose 2xx reply lacks the text field does not resolve: no
\* invocation of the chain takes such a reply for a generation, the call is
\* recorded as failed and the next provider is called.
C19_MalformedReplyIsFailure ==
    Observed =>
        \A k \in 1..Len(hist.calls) :
            hist.calls[k].ev = "ok" => hist.calls[k].hasText


(***************************************************************************)
(* A metadata block that does not decode.                                  *)
(***************************************************************************)
\* C20: when the text of the model has a metadata block whose body is not
\* JSON, the answer and the confidence of the assembled response are those the
\* same text without the block would give: the inline confidence marker is
\* read and is not left in the answer.
C20_UndecodableBlockFallsBackToMarker ==
    Assembled /\ HasKind(llm.response.text, {"badmeta"}) =>
        LET text == llm.response.text
            bare == RemoveAt(text, FirstOf(text, {"badmeta"}))
            expected == responseCandidate(req, sess, [llm.response EXCEPT !.text = bare],
                                          llm.error)
        IN  /\ ~HasKind(out.candidate.answer, {"marker"})
            /\ out.candidate.answer = expected.answer
            /\ out.candidate.confidence = expected.confidence


(***************************************************************************)
(* The memory summary is best-effort.                                      *)
(***************************************************************************)
\* generateMemorySummary took its catch block: the summary chain was rejected,
\* or the text it resolved with does not JSON-decode
SummaryFailed ==
    /\ chain.purpose = "summary"
    /\ \/ chain.state = "rejected"
       \/ chain.state = "resolved" /\ ~IsJson(chain.response[1].text)

\* the episodic memories written for the insight of the run that has returned
MemoriesOfRun ==
    SelectSeq(db.episodicMemories, LAMBDA m : m.insightId = result.ids.insightId)

\* C21: a run whose memory-summary generation failed (every provider of the
\* summary chain threw, or the reply is not JSON) ends as it would have ended
\* with a summary: it is persisted and returns exactly when the same arguments
\* with a generated summary are accepted, the response returned is the one
\* validated before the summary was asked for, and the episodic memory written
\* for it holds the first 280 characters of the answer.
C21_SummaryFailureLeavesRunAlone ==
    Ended /\ SummaryFailed =>
        LET final == finalResponse(responseCandidate(req, sess, llm.response, llm.error))
            generated == Some([summary |-> SummaryOf(1), tags |-> <<"topic">>])
            a == PersistArgs(req, out.candidate.citations, final, llm.response,
                             llm.error, generated)
        IN  /\ result.kind = "returned" <=> ArgsAccepted(a)
            /\ result.kind = "returned" =>
                /\ result.response = final
                /\ db.insights[result.ids.insightId].status = final.status
                /\ \A i \in 1..Len(MemoriesOfRun) :
                        MemoriesOfRun[i].summary = SliceText(out.candidate.answer, 280)

\* every provider failed the summary call of an answered run with a long
\* answer; the run returned and its memory holds the answer cut at 280
C21_Witness ==
    /\ pc = "done"
    /\ SummaryFailed /\ chain.state = "rejected"
    /\ result.response.status = "answered"
    /\ TextLen(out.candidate.answer) > 280
    /\ Len(MemoriesOfRun) = 1
    /\ TextLen(MemoriesOfRun[1].summary) = 280


\* the text has a paragraph boundary: /\n{2,}/ matches in the normalized text
ParagraphBoundary(content) ==
    LET normalized == Trim(ReplaceCRLF(content))
    IN  \E i \in 1..(Len(normalized) - 1) : normalized[i] = LF /\ normalized[i + 1] = LF

\* C22: for a text that is not empty and has no paragraph boundary, the
\* semantic strategy returns the chunks the fixed strategy returns, so that
\* none of its chunks is longer than the window of 900 characters.
C22_SemanticFallsBackToFixed ==
    Chunked /\ ing.args.chunkStrategy = "semantic"
            /\ ~AllSpace(ing.args.content) /\ ~ParagraphBoundary(ing.args.content) =>
        /\ ing.ret = chunkByStrategy(ing.args.content, "fixed")
        /\ \A k \in 1..Len(ing.ret) : Len(ing.ret[k].text) <= FixedSize


\* C23: for signals with llmFailed = false computeConfidence returns at least
\* 0.35: the lower end of the clamp is 0.35 unless generation failed.
C23_FloorForNonFailed ==
    pc = "scored" /\ ~req.llmFailed => out.candidate.confidence >= 350

\* the weighted sum for signals without retrieval evidence, as thousandths:
\* answer quality 0.45, self-assessment 0.40, coverage 0.15, less the two
\* penalties; each signal valued as computeConfidence values it
NoEvidenceSum(signals) ==
    LET full == (IF signals.mode = "deep" THEN 800 ELSE 200) * 3
        structureBonus == (IF signals.hasCodeBlocks THEN 150 ELSE 0)
                            + (IF signals.hasStructuredSections THEN 150 ELSE 0)
        answer == Min(10 * full,
                      7 * Min(full, signals.answerLength) + (structureBonus * full) \div 100)
        llmSignal == IF signals.llmSelfConfidence.has THEN signals.llmSelfConfidence.v
                     ELSE IF signals.llmFailed THEN 200 ELSE 600
        source == Min(3, signals.sourcesCount)
        sum == answer * (540000 \div full) + 4800 * llmSignal + 600000 * source
        raw == sum - (IF signals.clarificationRequired THEN 1500 * 1200 ELSE 0)
                   - (IF signals.llmFailed THEN 2000 * 1200 ELSE 0)
    IN  RoundDiv(raw, 12000)

\* C24: the score is the clamped weighted sum with weights retrieval 0.30,
\* answer quality 0.25, self-assessment 0.25, coverage 0.20 when chunksFound > 0,
\* and with weights answer quality 0.45, self-assessment 0.40, coverage 0.15
\* and no retrieval term when chunksFound = 0.
C24_WeightsAreAdaptive ==
    pc = "scored" =>
        LET sum == IF req.chunksFound > 0 THEN rawConfidence(req) ELSE NoEvidenceSum(req)
        IN  out.candidate.confidence = Max(100, Min(950, sum))


(***************************************************************************)
(* What a run hands to persistResearchResult and what it returns.          *)
(***************************************************************************)
\* the citation rows written for the insight of the run that has returned
CitationRowsOfRun ==
    SelectSeq(db.citations, LAMBDA row : row.insightId = result.ids.insightId)

\* the rows are the citations of that response, one for one and in order
RowsMatch(rows, citations) ==
    /\ Len(rows) = Len(citations)
    /\ \A i \in 1..Len(rows) :
        /\ rows[i].sourceId = citations[i].sourceId
        /\ rows[i].chunkId = citations[i].chunkId
        /\ rows[i].url = citations[i].url
        /\ rows[i].relevance = citations[i].relevance

\* C25: every run of a well-formed request ends with an insight whose citation
\* rows are the citations of the response it returned, one row for each and
\* in the same order, also when validation failed and the substitute is
\* returned.
C25_PersistedCitationsAreReturned ==
    Ended /\ requestSchema(req) =>
        /\ result.kind = "returned"
        /\ RowsMatch(CitationRowsOfRun, result.response.citations)


\* C26: the arguments a run passes to persistResearchResult have the shape the
\* mutation declares: no citation carries a field outside CitationFields, and
\* a run that retrieved at least one chunk is not rejected at step 15.
C26_PersistArgumentsConform ==
    /\ pc = "persist" =>
        LET a == PersistArgs(req, out.candidate.citations, out.final, llm.response,
                             llm.error, mem)
        IN  /\ \A i \in 1..Len(a.citations) : DOMAIN a.citations[i] \subseteq CitationFields
            /\ ArgsAccepted(a)
    /\ Ended /\ requestSchema(req) /\ Len(sess.ranked) >= 1 => result.kind = "returned"


\* C27: a response returned by a run has a clarificationPrompt exactly when
\* its status is "needs_clarification", and the insight persisted for it
\* records the same.
C27_PromptIffNeedsClarification ==
    pc = "done" =>
        /\ result.response.clarificationPrompt.has
                <=> result.response.status = "needs_clarification"
        /\ db.insights[result.ids.insightId].asks
                <=> db.insights[result.ids.insightId].status = "needs_clarification"

\* an ambiguous query whose model reply opened with a question: the run
\* returned that question as the prompt, with status needs_clarification
C27_Witness ==
    /\ pc = "done"
    /\ result.response.status = "needs_clarification"
    /\ result.response.clarificationPrompt.has
    /\ result.response.clarificationPrompt.v.question = <<Seg("question")>>


(***************************************************************************)
(* The chain invocations of one run.                                       *)
(***************************************************************************)
\* the positions in hist.calls of the events of the invocation with that purpose
EventsOf(purpose) == {k \in 1..Len(hist.calls) : hist.calls[k].purpose = purpose}

\* the memory-summary invocation has been entered in the run in flight
SummaryEntered == chain.purpose = "summary" \/ EventsOf("summary") # {}

\* C28: a run invokes the provider chain at most twice, once for the answer
\* and once for the memory summary, each invocation calling a provider at most
\* once.  The summary invocation is entered only after the first invocation
\* resolved, for a query that is not ambiguous, and after the response was
\* assembled and validated; it has settled, with no call in flight, when the
\* run persists.  After the first invocation was rejected no further provider
\* call is made in the run.
C28_AtMostTwoInvocations ==
    /\ \A k \in 1..Len(hist.calls) :
        /\ hist.calls[k].purpose \in {"primary", "summary"}
        /\ \A j \in 1..(k - 1) :
            /\ hist.calls[j].purpose = "summary" => hist.calls[k].purpose = "summary"
            /\ hist.calls[j].ev = "issue" /\ hist.calls[k].ev = "issue"
                /\ hist.calls[j].purpose = hist.calls[k].purpose
                    => hist.calls[j].idx < hist.calls[k].idx
    /\ SummaryEntered =>
        /\ Assembled
        /\ ~llm.error.has
        /\ ~isAmbiguous(req.query)
        /\ out.final = finalResponse(out.candidate)
        /\ pc = "summary" =>
            \E k \in EventsOf("primary") :
                /\ hist.calls[k].ev = "ok"
                /\ \A j \in EventsOf("summary") : k < j
    /\ pc \in {"persist", "done"} =>
        /\ chain.inflight = {}
        /\ chain.state \in {"resolved", "rejected"}
    /\ Assembled /\ llm.error.has =>
        /\ chain.purpose = "primary"
        /\ Len(hist.calls) = 2 * Len(getProviderChain)
        /\ EventsOf("summary") = {}

\* the answer came from the third provider and then all three providers
\* failed the summary: twelve events, and the run goes on to persist
C28_Witness ==
    /\ pc = "summary"
    /\ chain.state = "rejected"
    /\ Len(hist.calls) = 12
    /\ Cardinality(EventsOf("summary")) = 6
    /\ hist.calls[6].ev = "ok"


\* C29: a call of ingestDocument returns accepted = FALSE only if a call
\* before it had the same sourceUrl and the same content: documents that
\* differ in their content are never taken for one another.
C29_DedupOnlyIdenticalContent ==
    [][ ing'.n = ing.n + 1 /\ ~ing'.ret.accepted =>
            <<ing'.args.sourceUrl, ing'.args.content>> \in ing.seen
      ]_vars


(***************************************************************************)
(* The status of a session.                                                *)
(***************************************************************************)
\* the insights persisted on that session, oldest first
InsightsOfSession(sessionId) ==
    SelectSeq(db.insights, LAMBDA insight : insight.sessionId = sessionId)

\* C30: after any sequence of persisted runs, every session has the status of
\* the run persisted on it last: "needs_clarification" if that run's status is
\* needs_clarification and "completed" otherwise; no session is left "active"
\* or "failed".
C30_SessionStatusFollowsLastRun ==
    \A s \in 1..Len(db.sessions) :
        LET runs == InsightsOfSession(s)
        IN  /\ Len(runs) >= 1
            /\ db.sessions[s].status =
                    IF runs[Len(runs)].status = "needs_clarification"
                    THEN "needs_clarification" ELSE "completed"
            /\ db.sessions[s].status \notin {"active", "failed"}

\* a session asked back, was answered, then asked back again, next to a
\* session of a completed run
C30_Witness ==
    /\ Len(db.sessions) = 2
    /\ Len(InsightsOfSession(1)) = 3
    /\ InsightsOfSession(1)[1].status = "needs_clarification"
    /\ InsightsOfSession(1)[2].status = "answered"
    /\ db.sessions[1].status = "needs_clarification"
    /\ db.sessions[2].status = "completed"

====
